---- MODULE Spec2Model ----
(***************************************************************************)
(* CoAP endpoint of INF2004-Embedded-CoAP-Project-2025: the reliability    *)
(* engine (pending-message table, retransmission, duplicate detector) of   *)
(* cs04_coap_reliability.c, the push/pull block transfer and the Observe   *)
(* registry of coap_server.c, and the block receivers of coap_client.c.    *)
(***************************************************************************)
EXTENDS Integers, Sequences, FiniteSets, TLC

(***************************************************************************)
(* Program constants.                                                      *)
(***************************************************************************)
MAX_RETRANSMITS == 4
ACK_TIMEOUT_MS == 2000
MAX_PENDING_MESSAGES == 10
RECENT_MSG_HISTORY == 16
MAX_SUBSCRIBERS == 5
TIMEOUT_THRESHOLD == 3
\* 3 * 60 * 60 * 1000
SUBSCRIBER_TIMEOUT_MS == 10800000
BLOCK_SIZE == 1024

\* uint16_t range.
U16 == 2 ^ 16

\* Clock readings (to_ms_since_boot, next_retry_ms: uint32_t milliseconds) are
\* kept in units of 16 ms, which divide every delay of the program, so that
\* the 32-bit range is 2^28 units and its wrap-around stays computable.
ClockUnit == 2 ^ 4
ClockWrap == 2 ^ 28
ToUnits(ms) == ms \div ClockUnit

(***************************************************************************)
(* Bounds of the model.                                                    *)
(***************************************************************************)
\* Number of confirmable sends of one run of the reliability engine.
MaxStores == 2
\* Number of main-loop periods (of ACK_TIMEOUT_MS each) a run lasts.
MaxTicks == 33
\* Sends happen in the first StoreWindow periods of a run.
StoreWindow == 1
\* Number of disturbances of a run: periods in which the main loop is held up
\* and runs no check, and retransmissions that find no pbuf.
MaxDisturb == 1
\* Number of message IDs recorded in a duplicate detector.
MaxRecords == 18
\* How many of them may be zero, the top of the range or a repetition.
MaxOddRecords == 1
\* Number of Observe registrations the server accepts in a run.
MaxRegs == 2
\* Number of notifications the server builds in a run.
MaxNotifs == 3
\* Number of requests the server handles in a run (duplicates not counted).
MaxRequests == 3
\* Number of GET /file requests the client sends in a run.
MaxGets == 3
\* Number of datagrams the client receives in a run.
MaxCliRx == 3

\* One main-loop period of the model, in ms.
TickMs == ACK_TIMEOUT_MS

\* Message IDs a sender draws (rand() truncated to 16 bits): small, zero and
\* the top of the range.
MsgIds == {0, 1}

\* Peers (IP address and port).
Peers == {"A", "B"}
NoPeer == "none"

Slots == 0 .. (MAX_PENDING_MESSAGES - 1)

VARIABLES
    pending_messages,   \* the retransmission table, Slots -> pending_message_t
    boot_offset,        \* reading of the 32-bit clock (in units) when the run starts
    elapsed,            \* ms since the run started
    pkt_hist,           \* history of the confirmable sends, in order
    stalls,             \* periods the loop was held up
    alloc_fails,        \* retransmissions that found no pbuf
    server_dup_detector,    \* duplicate_detector_t of the server
    rec_log,            \* the message IDs recorded in it, in order
    odd_records,        \* how many of them were not fresh
    subscribers,        \* the Observe registry, SubIdx -> coap_subscriber_t
    file_state,         \* file_transfer_state_t of the push transfer
    send_image,         \* static bool send_image of main
    sd_files,           \* the files on the SD card: sizes, lines appended
    led_state,          \* static bool led_state
    buzzer_state,       \* static bool buzzer_state
    sent,               \* the notifications built, in order (packet p is sent[p])
    regs,               \* number of subscribers added so far
    last_rx,            \* the last request received and what the server emitted for it
    client_dup_detector,    \* duplicate_detector_t of the client
    file_handle,        \* the file of the notification stream and its state
    block_state,        \* block_transfer_state_t of the GET /file transfer
    cli_gets,           \* the GET /file requests the client sent, in order
    cli_out,            \* what the client emitted for its last event
    cli_rxn,            \* number of datagrams the client received
    cli_wait            \* waiting_for_append_response, waiting_for_fetch_response

relVars == <<pending_messages, boot_offset, elapsed, pkt_hist, stalls, alloc_fails>>

dupVars == <<server_dup_detector, rec_log, odd_records>>

srvVars == <<subscribers, file_state, send_image, sd_files, led_state,
             buzzer_state, sent, regs, last_rx>>

cliVars == <<client_dup_detector, file_handle, block_state, cli_gets, cli_out,
             cli_rxn, cli_wait>>

vars == <<relVars, dupVars, srvVars, cliVars>>

\* to_ms_since_boot(get_absolute_time()): a uint32_t, it wraps; in units.
NowMs == (boot_offset + ToUnits(elapsed)) % ClockWrap

(***************************************************************************)
(* cs04_coap_reliability.c: the pending-message table.                     *)
(***************************************************************************)
\* memset(pending_messages, 0, ...): one zeroed slot.
ZeroSlot ==
    [active |-> FALSE, msg_id |-> 0, dest |-> NoPeer, retransmit_count |-> 0,
     next_retry_ms |-> 0, packet |-> 0]

coap_reliability_init == [i \in Slots |-> ZeroSlot]

\* A variant of the search below that falls back on the last slot.
FreeSlotOrLast(pm) ==
    IF \E i \in Slots : ~pm[i].active
    THEN CHOOSE i \in Slots : ~pm[i].active /\ \A j \in Slots : j < i => pm[j].active
    ELSE MAX_PENDING_MESSAGES - 1

\* The first inactive slot, -1 when there is none.
FreeSlot(pm) ==
    IF \E i \in Slots : ~pm[i].active
    THEN CHOOSE i \in Slots : ~pm[i].active /\ \A j \in Slots : j < i => pm[j].active
    ELSE -1

\* The table after coap_store_for_retransmit at clock reading t; `packet`
\* stands for the wire bytes copied into packet_buf.
coap_store_for_retransmit(pm, msg_id, dest, packet, t) ==
    LET slot == FreeSlot(pm) IN
    IF slot < 0 THEN pm
    ELSE [pm EXCEPT ![slot] =
            [active |-> TRUE, msg_id |-> msg_id, dest |-> dest,
             retransmit_count |-> 0,
             next_retry_ms |-> (t + ToUnits(ACK_TIMEOUT_MS)) % ClockWrap,
             packet |-> packet]]

\* Its return value.
StoreSucceeds(pm) == FreeSlot(pm) >= 0

\* The slot coap_clear_pending_message deactivates: the first active slot
\* with this message ID, -1 when there is none.
ClearSlot(pm, msg_id) ==
    LET hit(i) == pm[i].active /\ pm[i].msg_id = msg_id IN
    IF \E i \in Slots : hit(i)
    THEN CHOOSE i \in Slots : hit(i) /\ \A j \in Slots : j < i => ~hit(j)
    ELSE -1

coap_clear_pending_message(pm, msg_id) ==
    LET slot == ClearSlot(pm, msg_id) IN
    IF slot < 0 THEN pm ELSE [pm EXCEPT ![slot].active = FALSE]

\* now >= next_retry_ms on an active slot.
Due(pm, i, t) == pm[i].active /\ t >= pm[i].next_retry_ms

\* A variant that gives up one attempt later.
ExhaustedLate(pm, i, t) == Due(pm, i, t) /\ pm[i].retransmit_count > MAX_RETRANSMITS

\* retransmit_count >= MAX_RETRANSMITS on a due slot: give up.
Exhausted(pm, i, t) == Due(pm, i, t) /\ pm[i].retransmit_count >= MAX_RETRANSMITS

\* A variant whose delay grows linearly.
BackoffLinear(count) == ACK_TIMEOUT_MS * (count + 1)

\* ACK_TIMEOUT_MS * (1 << retransmit_count), in ms.
Backoff(count) == ACK_TIMEOUT_MS * (2 ^ count)

\* The slots one call of coap_check_retransmissions gives up on, those it
\* re-emits (nomem: the due slots for which pbuf_alloc fails) and the table
\* it leaves.
FailedSlots(pm, t) == {i \in Slots : Exhausted(pm, i, t)}

ResentSlots(pm, t, nomem) ==
    {i \in Slots : Due(pm, i, t) /\ ~Exhausted(pm, i, t) /\ i \notin nomem}

coap_check_retransmissions(pm, t, nomem) ==
    [i \in Slots |->
        IF i \in FailedSlots(pm, t) THEN [pm[i] EXCEPT !.active = FALSE]
        ELSE IF i \in ResentSlots(pm, t, nomem)
        THEN [pm[i] EXCEPT
                !.retransmit_count = (@ + 1) % 256,
                !.next_retry_ms =
                    (t + ToUnits(Backoff((pm[i].retransmit_count + 1) % 256))) % ClockWrap]
        ELSE pm[i]]

(***************************************************************************)
(* cs04_coap_reliability.c: the duplicate detector.                        *)
(***************************************************************************)
RingIdx == 0 .. (RECENT_MSG_HISTORY - 1)

\* memset(recent_msg_ids, 0, ...); recent_msg_idx = 0.
coap_duplicate_detector_init ==
    [recent_msg_ids |-> [i \in RingIdx |-> 0], recent_msg_idx |-> 0]

coap_is_duplicate_message(det, msg_id) ==
    \E i \in RingIdx :
        det.recent_msg_ids[i] = msg_id /\ det.recent_msg_ids[i] # 0

\* A variant that does not move the ring index.
RecordNoAdvance(det, msg_id) ==
    [det EXCEPT !.recent_msg_ids[det.recent_msg_idx] = msg_id]

coap_record_message_id(det, msg_id) ==
    [recent_msg_ids |-> [det.recent_msg_ids EXCEPT ![det.recent_msg_idx] = msg_id],
     recent_msg_idx |-> (det.recent_msg_idx + 1) % RECENT_MSG_HISTORY]

DupIdle ==
    /\ server_dup_detector = coap_duplicate_detector_init
    /\ rec_log = <<>>
    /\ odd_records = 0

(***************************************************************************)
(* History of the sends (what an observer of the wire and of the failure   *)
(* callback records); packet p is the p-th send.                           *)
(***************************************************************************)
NewHist(msg_id, dest, stored) ==
    [msg_id |-> msg_id, dest |-> dest, stored |-> stored, stored_at |-> elapsed,
     retx |-> <<>>, fails |-> <<>>, cleared |-> FALSE]

\* The history hist after one call of coap_check_retransmissions on table pm
\* at clock reading t, ms milliseconds into the run.
HistAfterCheckAt(hist, pm, t, nomem, ms) ==
    [p \in 1 .. Len(hist) |->
        LET at == {i \in Slots : pm[i].active /\ pm[i].packet = p} IN
        IF at \cap FailedSlots(pm, t) # {}
        THEN LET i == CHOOSE i \in at : TRUE IN
             [hist[p] EXCEPT
                !.fails = Append(@, [at |-> ms, msg_id |-> pm[i].msg_id,
                                     dest |-> pm[i].dest])]
        ELSE IF at \cap ResentSlots(pm, t, nomem) # {}
        THEN [hist[p] EXCEPT !.retx = Append(@, ms)]
        ELSE hist[p]]

HistAfterCheck(pm, t, nomem) == HistAfterCheckAt(pkt_hist, pm, t, nomem, elapsed)

\* The history after coap_clear_pending_message(msg_id) on table pm.
HistAfterClear(hist, pm, msg_id) ==
    LET slot == ClearSlot(pm, msg_id) IN
    IF slot < 0 THEN hist ELSE [hist EXCEPT ![pm[slot].packet].cleared = TRUE]

(***************************************************************************)
(* coap.c (option values) and cs04_coap_packet.c (notifications).          *)
(***************************************************************************)
\* The least element of a set of naturals, -1 for the empty set: the index a
\* `for (i = 0; ...) if (...) { ...; break; }` loop stops at.
First(S) == IF S = {} THEN -1 ELSE CHOOSE i \in S : \A j \in S : i <= j

\* An unsigned integer as an option value: big-endian, in as few bytes as
\* hold it (none for 0).
coap_set_option_uint(v) ==
    IF v = 0 THEN <<>>
    ELSE IF v < 2 ^ 8 THEN <<v>>
    ELSE IF v < 2 ^ 16 THEN <<v \div (2 ^ 8), v % (2 ^ 8)>>
    ELSE IF v < 2 ^ 24
         THEN <<v \div (2 ^ 16), (v \div (2 ^ 8)) % (2 ^ 8), v % (2 ^ 8)>>
    ELSE <<v \div (2 ^ 24), (v \div (2 ^ 16)) % (2 ^ 8),
           (v \div (2 ^ 8)) % (2 ^ 8), v % (2 ^ 8)>>

RECURSIVE coap_get_option_uint(_)
coap_get_option_uint(buf) ==
    IF buf = <<>> THEN 0
    ELSE coap_get_option_uint(SubSeq(buf, 1, Len(buf) - 1)) * (2 ^ 8) + buf[Len(buf)]

\* The Block2 value of a notification: (block_num << 4) | (more << 3) | 6.
Block2Val(block_num, more) == block_num * (2 ^ 4) + (IF more THEN 2 ^ 3 ELSE 0) + 6

\* block_val >> 4.
Block2Num(block_val) == block_val \div (2 ^ 4)

\* An option is the set of its values on the message: empty when absent.
OptUint(opt) == coap_get_option_uint(CHOOSE b \in opt : TRUE)

\* The packet coap_send_con_notification builds.
NotificationPacket(token, msg_id, observe_seq, payload, is_block, block_num, more_blocks, is_image) ==
    [type |-> "CON", code |-> "2.05", msg_id |-> msg_id, token |-> token,
     observe |-> {coap_set_option_uint(observe_seq)},
     content_format |-> IF is_block /\ is_image THEN {coap_set_option_uint(22)} ELSE {},
     block2 |-> IF is_block
                THEN {coap_set_option_uint(Block2Val(block_num, more_blocks))}
                ELSE {},
     payload |-> payload]

\* coap_send_con_notification on the server state st = [pm, hist, log, subs,
\* fs] at ms milliseconds into the run: the packet is stored for
\* retransmission, then sent unless pbuf_alloc fails (sent_ok).
coap_send_con_notification(st, i, msg_id, sent_ok, observe_seq, payload, is_block, block_num, more_blocks, is_image, ms) ==
    LET sub == st.subs[i]
        pkt == NotificationPacket(sub.token, msg_id, observe_seq, payload,
                                  is_block, block_num, more_blocks, is_image)
    IN  [st EXCEPT
            !.pm = coap_store_for_retransmit(@, msg_id, sub.peer,
                                             Len(st.hist) + 1, ToUnits(ms)),
            !.hist = Append(@, [msg_id |-> msg_id, dest |-> sub.peer,
                                stored |-> StoreSucceeds(st.pm),
                                stored_at |-> ms, retx |-> <<>>,
                                fails |-> <<>>, cleared |-> FALSE]),
            !.log = Append(@, [sid |-> sub.sid, sub |-> i, dest |-> sub.peer,
                               pkt |-> pkt, first_sent |-> sent_ok])]

\* A variant of the call below that leaves observe_seq as it is.
NotifySubSameSeq(st, i, msg_id, sent_ok, payload, is_block, block_num, more_blocks, is_image, ms) ==
    coap_send_con_notification(st, i, msg_id, sent_ok, st.subs[i].observe_seq,
                               payload, is_block, block_num, more_blocks,
                               is_image, ms)

\* coap_send_con_notification(..., sub->observe_seq++, ...): the call with
\* the subscriber's sequence number, which is then incremented (uint16_t).
NotifySub(st, i, msg_id, sent_ok, payload, is_block, block_num, more_blocks, is_image, ms) ==
    [coap_send_con_notification(st, i, msg_id, sent_ok, st.subs[i].observe_seq,
                                payload, is_block, block_num, more_blocks,
                                is_image, ms)
        EXCEPT !.subs[i].observe_seq = (@ + 1) % U16]

(***************************************************************************)
(* coap_server.c: subscribers.                                             *)
(***************************************************************************)
SubIdx == 0 .. (MAX_SUBSCRIBERS - 1)

\* memset(subscribers, 0, ...); sid numbers the registrations.
ZeroSubscriber ==
    [active |-> FALSE, peer |-> NoPeer, token |-> <<>>, observe_seq |-> 0,
     last_ack_time |-> 0, timeout_sessions |-> 0, sid |-> 0]

ActiveSubs(subs) == {i \in SubIdx : subs[i].active}

\* The first active subscriber with this address and port, -1 if none.
SubOf(subs, peer) == First({i \in SubIdx : subs[i].active /\ subs[i].peer = peer})

\* A variant of the search below that falls back on entry 0.
FreeSubOrFirst(subs) ==
    IF \A i \in SubIdx : subs[i].active THEN 0 ELSE First({i \in SubIdx : ~subs[i].active})

\* The index add_subscriber returns: the first inactive entry, -1 if none.
FreeSub(subs) == First({i \in SubIdx : ~subs[i].active})

\* A variant of add_subscriber that leaves the counters of the entry as the
\* last subscriber in it left them.
AddSubscriberStale(subs, peer, token, sid) ==
    LET i == FreeSub(subs) IN
    IF i < 0 THEN subs
    ELSE [subs EXCEPT ![i].active = TRUE, ![i].peer = peer, ![i].token = token,
                      ![i].sid = sid]

add_subscriber(subs, peer, token, sid) ==
    LET i == FreeSub(subs) IN
    IF i < 0 THEN subs
    ELSE [subs EXCEPT ![i] = [active |-> TRUE, peer |-> peer, token |-> token,
                              observe_seq |-> 0, last_ack_time |-> NowMs,
                              timeout_sessions |-> 0, sid |-> sid]]

\* A variant of the callback below that stops the transfer and goes on
\* waiting for the ACK.
OnFailureKeepWaiting(st, pm, failed) ==
    IF failed = {} THEN st
    ELSE [st EXCEPT
            !.fs = IF @.transfer_active
                   THEN [@ EXCEPT !.transfer_active = FALSE, !.block_num = 0]
                   ELSE @,
            !.subs = [j \in SubIdx |->
                        [@[j] EXCEPT !.timeout_sessions =
                            @ + Cardinality({i \in failed :
                                               SubOf(st.subs, pm[i].dest) = j})]]]

\* on_retransmit_failure for every slot of table pm in the set failed: an
\* active transfer is stopped, and each failure counts against the first
\* active subscriber at the slot's destination.
on_retransmit_failure(st, pm, failed) ==
    IF failed = {} THEN st
    ELSE [st EXCEPT
            !.fs = IF @.transfer_active
                   THEN [@ EXCEPT !.transfer_active = FALSE,
                                  !.waiting_for_ack = FALSE, !.block_num = 0]
                   ELSE @,
            !.subs = [j \in SubIdx |->
                        [@[j] EXCEPT !.timeout_sessions =
                            @ + Cardinality({i \in failed :
                                               SubOf(st.subs, pm[i].dest) = j})]]]

\* now - last_ack_time > SUBSCRIBER_TIMEOUT_MS, in uint32_t arithmetic.
AckOverdue(sub, now) ==
    (now - sub.last_ack_time + ClockWrap) % ClockWrap > ToUnits(SUBSCRIBER_TIMEOUT_MS)

\* prune_dead_subscribers at clock reading now: an active entry with
\* TIMEOUT_THRESHOLD timeout sessions is dropped; then an entry without an
\* ACK for SUBSCRIBER_TIMEOUT_MS gets one more timeout session and a new
\* last_ack_time.
prune_dead_subscribers(subs, now) ==
    [i \in SubIdx |->
        IF ~subs[i].active THEN subs[i]
        ELSE [subs[i] EXCEPT
                 !.active = subs[i].timeout_sessions < TIMEOUT_THRESHOLD,
                 !.timeout_sessions = IF AckOverdue(subs[i], now) THEN @ + 1 ELSE @,
                 !.last_ack_time = IF AckOverdue(subs[i], now) THEN now ELSE @]]

(***************************************************************************)
(* coap_server.c: the push block transfer (file sent as notifications).    *)
(***************************************************************************)
\* file_state after init_hardware; size is f_size of the open file.
ZeroFileState ==
    [transfer_active |-> FALSE, waiting_for_ack |-> FALSE, block_num |-> 0,
     is_image |-> FALSE, size |-> 0]

\* bytes_read of f_lseek(block_num * BLOCK_SIZE); f_read(BLOCK_SIZE) on a file
\* of `size` bytes.
BytesRead(size, block_num) ==
    LET off == block_num * BLOCK_SIZE IN
    IF off >= size THEN 0
    ELSE IF size - off > BLOCK_SIZE THEN BLOCK_SIZE ELSE size - off

\* The payload of a block: len bytes of the file from block_num * BLOCK_SIZE.
BlockPayload(is_image, block_num, len) ==
    [len |-> len,
     data |-> <<IF is_image THEN "image" ELSE "text", block_num * BLOCK_SIZE>>]

send_next_file_block(st, i, msg_id, sent_ok, ms) ==
    IF ~st.fs.transfer_active \/ st.fs.waiting_for_ack THEN st
    ELSE LET bytes_read == BytesRead(st.fs.size, st.fs.block_num) IN
         NotifySub([st EXCEPT !.fs.waiting_for_ack = TRUE], i, msg_id, sent_ok,
                   BlockPayload(st.fs.is_image, st.fs.block_num, bytes_read),
                   TRUE, st.fs.block_num, bytes_read = BLOCK_SIZE,
                   st.fs.is_image, ms)

\* for (i = 0; i < MAX_SUBSCRIBERS; i++) if (subscribers[i].active)
\*     send_next_file_block(&subscribers[i]);
RECURSIVE StartLoop(_, _, _, _, _)
StartLoop(st, i, msg_id, sent_ok, ms) ==
    IF i >= MAX_SUBSCRIBERS THEN st
    ELSE StartLoop(IF st.subs[i].active
                   THEN send_next_file_block(st, i, msg_id, sent_ok, ms)
                   ELSE st,
                   i + 1, msg_id, sent_ok, ms)

start_file_transfer(st, is_image, size, msg_id, sent_ok, ms) ==
    IF st.fs.transfer_active THEN st
    ELSE StartLoop([st EXCEPT !.fs.transfer_active = TRUE,
                              !.fs.is_image = is_image,
                              !.fs.block_num = 0,
                              !.fs.size = size],
                   0, msg_id, sent_ok, ms)

\* Buttons 1 and 2: one notification to every active subscriber.
RECURSIVE ButtonBroadcast(_, _, _, _, _, _)
ButtonBroadcast(st, i, msg_ids, nosend, payload, ms) ==
    IF i >= MAX_SUBSCRIBERS THEN st
    ELSE ButtonBroadcast(IF st.subs[i].active
                         THEN NotifySub(st, i, msg_ids[i], i \notin nosend,
                                        payload, FALSE, 0, FALSE, FALSE, ms)
                         ELSE st,
                         i + 1, msg_ids, nosend, payload, ms)

\* udp_recv_callback on an ACK from `peer` with message ID msg_id and Block2
\* option block2: the pending message is cleared, the subscriber's timeout
\* sessions are reset, and an ACK whose Block2 NUM is the current block ends
\* the transfer or sends the next block (with message ID next_id).
AckHandler(st, peer, msg_id, block2, next_id, sent_ok, ms) ==
    LET j == SubOf(st.subs, peer)
        st1 == [st EXCEPT !.pm = coap_clear_pending_message(@, msg_id),
                          !.hist = HistAfterClear(@, st.pm, msg_id)]
        st2 == IF j < 0 THEN st1
               ELSE [st1 EXCEPT !.subs[j].timeout_sessions = 0,
                                !.subs[j].last_ack_time =
                                    (boot_offset + ToUnits(ms)) % ClockWrap]
        total_blocks == (st.fs.size + BLOCK_SIZE - 1) \div BLOCK_SIZE
    IN  IF st.fs.transfer_active /\ block2 # {}
           /\ Block2Num(OptUint(block2)) = st.fs.block_num
        THEN IF total_blocks > 0 /\ st.fs.block_num >= total_blocks - 1
             THEN [st2 EXCEPT !.fs.waiting_for_ack = FALSE,
                              !.fs.transfer_active = FALSE,
                              !.fs.block_num = 0]
             ELSE LET st3 == [st2 EXCEPT !.fs.waiting_for_ack = FALSE,
                                         !.fs.block_num = @ + 1]
                  IN IF j < 0 THEN st3
                     ELSE send_next_file_block(st3, j, next_id, sent_ok, ms)
        ELSE st2

\* The server state the operators above work on, and its write-back.
SrvSt ==
    [pm |-> pending_messages, hist |-> pkt_hist, log |-> sent,
     subs |-> subscribers, fs |-> file_state]

Commit(st) ==
    /\ pending_messages' = st.pm
    /\ pkt_hist' = st.hist
    /\ sent' = st.log
    /\ subscribers' = st.subs
    /\ file_state' = st.fs

(***************************************************************************)
(* coap_server.c: requests (udp_recv_callback and the endpoint handlers).  *)
(***************************************************************************)
NoPayload == [len |-> 0, data |-> <<>>]

\* strstr(payload, word).
Contains(payload, word) == \E k \in 1 .. Len(payload.data) : payload.data[k] = word

\* coap_make_response and coap_build_block2_response: a piggy-backed
\* response, of type ACK, with the request's message ID and token.
Response(req, code, payload, observe, content_format, block2) ==
    [type |-> "ACK", code |-> code, msg_id |-> req.msg_id, token |-> req.token,
     observe |-> observe, content_format |-> content_format, block2 |-> block2,
     payload |-> payload]

\* coap_send_ack(pcb, addr, port, &pkt, NULL, 0): an empty ACK.
EmptyAck(req) ==
    [type |-> "ACK", code |-> "0.00", msg_id |-> req.msg_id, token |-> <<>>,
     observe |-> {}, content_format |-> {}, block2 |-> {}, payload |-> NoPayload]

\* A variant of the lookup below that goes by the path alone.
EndpointByPath(req, pull) ==
    CASE req.path_rest # <<>> -> "none"
      [] req.path = "buttons" -> "handle_get_buttons"
      [] req.path = "actuators" -> "handle_get_actuators"
      [] req.path = "file" /\ pull -> "handle_get_file"
      [] req.path = "file" -> "handle_ipatch_file"
      [] OTHER -> "none"

\* The handler the endpoints[] table gives a request (pull: the build whose
\* table has GET /file).  Every entry has a path of one segment: a request
\* matches it with the entry's method and one Uri-Path option, byte-equal
\* (path is the first Uri-Path option, "" without one; path_rest the others).
Endpoint(req, pull) ==
    CASE req.path_rest # <<>> -> "none"
      [] req.code = "GET" /\ req.path = "buttons" -> "handle_get_buttons"
      [] req.code = "GET" /\ req.path = "actuators" -> "handle_get_actuators"
      [] req.code = "GET" /\ req.path = "file" /\ pull -> "handle_get_file"
      [] req.code = "PUT" /\ req.path = "actuators" -> "handle_put_actuators"
      [] req.code = "iPATCH" /\ req.path = "file" -> "handle_ipatch_file"
      [] req.code = "FETCH" /\ req.path = "file" -> "handle_fetch_file"
      [] OTHER -> "none"

\* 2^(SZX+4), SZX capped at 6.
coap_block_size_from_szx(szx) == 2 ^ ((IF szx > 6 THEN 6 ELSE szx) + 4)

\* A variant of the encoder below that writes the low byte first.
EncodeBlock2LowFirst(block_num, more, szx) ==
    LET v == block_num * (2 ^ 4) + (IF more THEN 2 ^ 3 ELSE 0) + szx IN
    IF v < 2 ^ 8 THEN <<v>>
    ELSE IF v < 2 ^ 16 THEN <<v % (2 ^ 8), v \div (2 ^ 8)>>
    ELSE <<v % (2 ^ 8), (v \div (2 ^ 8)) % (2 ^ 8), (v \div (2 ^ 16)) % (2 ^ 8)>>

\* (block_num << 4) | (more ? 8 : 0) | szx, in 1 to 3 bytes.
coap_encode_block2_option(block_num, more, szx) ==
    LET v == block_num * (2 ^ 4) + (IF more THEN 2 ^ 3 ELSE 0) + szx IN
    IF v < 2 ^ 8 THEN <<v>>
    ELSE IF v < 2 ^ 16 THEN <<v \div (2 ^ 8), v % (2 ^ 8)>>
    ELSE <<(v \div (2 ^ 16)) % (2 ^ 8), (v \div (2 ^ 8)) % (2 ^ 8), v % (2 ^ 8)>>

\* A variant of the read below that fills the whole buffer at the end of the
\* file too.
ReadAtFull(size, off, n) ==
    IF off >= size THEN 0 ELSE n

\* bytes_read of f_lseek(off); f_read(n) on a file of `size` bytes.
ReadAt(size, off, n) ==
    IF off >= size THEN 0 ELSE IF size - off > n THEN n ELSE size - off

\* handle_get_file: one block of server.txt or server.jpg.
handle_get_file(req, files) ==
    LET val == IF req.block2 = {} THEN 6 ELSE OptUint(req.block2)
        block_num == val \div (2 ^ 4)
        szx == val % (2 ^ 3)
        image == req.query = "type=image"
        size == IF image THEN files.image ELSE files.text
        block_size == coap_block_size_from_szx(szx)
        total_blocks == (size + block_size - 1) \div block_size
        bytes_read == ReadAt(size, block_num * block_size, block_size)
        more_blocks == block_num + 1 < total_blocks
    IN  Response(req, "2.05",
                 [len |-> bytes_read,
                  data |-> <<IF image THEN "image" ELSE "text",
                             block_num * block_size>>],
                 {},
                 IF image \/ block_num > 0 THEN {<<IF image THEN 42 ELSE 0>>} ELSE {},
                 {coap_encode_block2_option(block_num, more_blocks, szx)})

\* coap_make_response: the piggy-backed response of a handler.
coap_make_response(req, code, payload) == Response(req, code, payload, {}, {}, {})

\* The value of a decimal digit, -1 for any other character.
DigitOf(c) ==
    CASE c = "0" -> 0 [] c = "1" -> 1 [] c = "2" -> 2 [] c = "3" -> 3
      [] c = "4" -> 4 [] c = "5" -> 5 [] c = "6" -> 6 [] c = "7" -> 7
      [] c = "8" -> 8 [] c = "9" -> 9 [] OTHER -> -1

\* A variant of atoi that reads no sign.
AtoiUnsigned(str) ==
    LET RECURSIVE Digits(_, _)
        Digits(s, acc) == IF s = <<>> \/ DigitOf(Head(s)) < 0 THEN acc
                          ELSE Digits(Tail(s), 10 * acc + DigitOf(Head(s)))
    IN  Digits(str, 0)

\* atoi on a string (a sequence of characters): blanks are skipped, then an
\* optional sign and the digits up to the first other character are read.
atoi(str) ==
    LET RECURSIVE Blanks(_)
        Blanks(s) == IF s # <<>> /\ Head(s) = " " THEN Blanks(Tail(s)) ELSE s
        RECURSIVE Digits(_, _)
        Digits(s, acc) == IF s = <<>> \/ DigitOf(Head(s)) < 0 THEN acc
                          ELSE Digits(Tail(s), 10 * acc + DigitOf(Head(s)))
        t == Blanks(str)
    IN  IF t # <<>> /\ Head(t) = "-" THEN 0 - Digits(Tail(t), 0)
        ELSE IF t # <<>> /\ Head(t) = "+" THEN Digits(Tail(t), 0)
        ELSE Digits(t, 0)

\* The strings f_gets(line, 256) returns one after the other on the text
\* file, as their lengths: up to 255 characters, up to and including the
\* next newline.  files.lines are the lengths of the lines (newline
\* included), files.tail the characters after the last newline.
RECURSIVE f_gets(_)
f_gets(lens) ==
    IF lens = <<>> THEN <<>>
    ELSE IF Head(lens) = 0 THEN f_gets(Tail(lens))
    ELSE IF Head(lens) > 255 THEN <<255>> \o f_gets(<<Head(lens) - 255>> \o Tail(lens))
    ELSE <<Head(lens)>> \o f_gets(Tail(lens))

RECURSIVE SumSeq(_)
SumSeq(s) == IF s = <<>> THEN 0 ELSE Head(s) + SumSeq(Tail(s))

FETCH_BUFFER_SIZE == 1024

\* handle_fetch_file: the lines start..end of server.txt.
handle_fetch_file(req, files, io) ==
    LET str == SubSeq(req.payload.data, 1,
                      IF req.payload.len < 31 THEN req.payload.len ELSE 31)
        commas == {k \in 1 .. Len(str) : str[k] = ","}
        comma == IF commas = {} THEN 0
                 ELSE CHOOSE k \in commas : \A j \in commas : k <= j
        num == atoi(str)
        start_line == IF comma > 0 THEN atoi(SubSeq(str, 1, comma - 1)) ELSE 0
        end_line == IF comma > 0 THEN atoi(SubSeq(str, comma + 1, Len(str)))
                    ELSE IF num > 0 THEN num - 1 ELSE 4
        num_lines == end_line - start_line + 1
        got == f_gets(files.lines \o <<files.tail>>)
        fits(k) == SumSeq(SubSeq(got, start_line + 1, start_line + k)) < FETCH_BUFFER_SIZE
        avail == IF Len(got) - start_line < num_lines THEN Len(got) - start_line
                 ELSE num_lines
        lines_read == CHOOSE k \in 0 .. avail :
                         /\ fits(k)
                         /\ k < avail => ~fits(k + 1)
        buffer_pos == SumSeq(SubSeq(got, start_line + 1, start_line + lines_read))
        text(msg, n) == [len |-> n, data |-> <<msg>>]
    IN  IF req.content_format = {}
        THEN coap_make_response(req, "4.00", text("Content-Format required", 23))
        ELSE IF OptUint(req.content_format) # 0
        THEN coap_make_response(req, "4.15", text("Unsupported format", 18))
        ELSE IF req.payload.len = 0
        THEN coap_make_response(req, "4.00", text("Empty payload", 13))
        ELSE IF start_line < 0
        THEN coap_make_response(req, "4.00", text("Invalid start line", 18))
        ELSE IF end_line < 0
        THEN coap_make_response(req, "4.00", text("Invalid end line", 16))
        ELSE IF end_line < start_line
        THEN coap_make_response(req, "4.00", text("Invalid range", 13))
        ELSE IF io = "open_fail"
        THEN coap_make_response(req, "4.04", text("File not found", 14))
        ELSE IF Len(got) < start_line \/ lines_read = 0
        THEN coap_make_response(req, "2.05", NoPayload)
        ELSE coap_make_response(
                 req, "2.05",
                 [len |-> buffer_pos,
                  data |-> <<"text", SumSeq(SubSeq(got, 1, start_line))>>])

\* The file after f_open(FA_OPEN_APPEND), f_write(payload), f_write("\n"):
\* the payload (which holds no newline) and the newline end the last line;
\* nl is false when the second f_write fails.
f_append(files, payload, nl) ==
    IF nl
    THEN [files EXCEPT !.text = @ + payload.len + 1,
                       !.appended = Append(@, payload),
                       !.lines = Append(@, files.tail + payload.len + 1),
                       !.tail = 0]
    ELSE [files EXCEPT !.text = @ + payload.len,
                       !.appended = Append(@, payload),
                       !.tail = @ + payload.len]

\* The response of the handler h to req, in the state before the request;
\* io is what the SD card does: "ok", "open_fail" (f_open fails),
\* "write_fail" (the f_write of the payload fails, nothing is written) or
\* "newline_fail" (the f_write of the newline fails).
HandlerResponse(req, h, io) ==
    CASE h = "handle_get_buttons" ->
            IF req.observe # {} /\ OptUint(req.observe) = 0
            THEN IF FreeSub(subscribers) >= 0
                 THEN [coap_make_response(req, "2.05", NoPayload)
                          EXCEPT !.observe = {coap_set_option_uint(0)}]
                 ELSE coap_make_response(req, "4.00", NoPayload)
            ELSE coap_make_response(req, "2.05", [len |-> 22, data |-> <<"BTN">>])
      [] h = "handle_get_actuators" ->
            coap_make_response(req, "2.05",
                     [len |-> 4 + (IF led_state THEN 2 ELSE 3)
                              + 8 + (IF buzzer_state THEN 2 ELSE 3),
                      data |-> <<"LED", led_state, "BUZZER", buzzer_state>>])
      [] h = "handle_put_actuators" ->
            IF req.payload.len = 0
            THEN coap_make_response(req, "4.00", NoPayload)
            ELSE coap_make_response(req, "2.04", [len |-> 2, data |-> <<"OK">>])
      [] h = "handle_ipatch_file" ->
            IF req.payload.len = 0
            THEN coap_make_response(req, "4.00", NoPayload)
            ELSE IF io \in {"open_fail", "write_fail"}
            THEN coap_make_response(req, "5.03", NoPayload)
            ELSE coap_make_response(req, "2.04", [len |-> 8, data |-> <<"Appended">>])
      [] h = "handle_get_file" -> handle_get_file(req, sd_files)
      [] h = "handle_fetch_file" -> handle_fetch_file(req, sd_files, io)
      [] OTHER -> coap_make_response(req, "4.04", NoPayload)

\* A variant of the test below for a server that treats GET /file as any
\* other request.
NoFileBypass(req, pull) == FALSE

\* is_get_file_request: a GET whose first Uri-Path option is "file" (in the
\* build that has it).
IsGetFileRequest(req, pull) == pull /\ req.code = "GET" /\ req.path = "file"

\* udp_recv_callback on a CON or NON request; io is what the SD card does.
ServerRecvIO(req, pull, io) ==
    LET is_get_file_request == IsGetFileRequest(req, pull)
        dup == /\ ~is_get_file_request
               /\ coap_is_duplicate_message(server_dup_detector, req.msg_id)
        h == Endpoint(req, pull)
        reg == /\ h = "handle_get_buttons"
               /\ req.observe # {} /\ OptUint(req.observe) = 0
        put == h = "handle_put_actuators" /\ req.payload.len > 0
        patch == /\ h = "handle_ipatch_file" /\ req.payload.len > 0
                 /\ io \in {"ok", "newline_fail"}
    IN
    /\ IF dup
       THEN /\ last_rx' = [req |-> req, handler |-> "none", out |-> <<EmptyAck(req)>>]
            /\ UNCHANGED <<server_dup_detector, rec_log, subscribers, regs,
                           led_state, buzzer_state, sd_files>>
       ELSE /\ server_dup_detector' =
                 IF is_get_file_request THEN server_dup_detector
                 ELSE coap_record_message_id(server_dup_detector, req.msg_id)
            /\ rec_log' = IF is_get_file_request THEN rec_log
                          ELSE Append(rec_log, req.msg_id)
            /\ subscribers' =
                 IF reg THEN add_subscriber(subscribers, req.peer, req.token, regs + 1)
                 ELSE subscribers
            /\ regs' = IF reg /\ FreeSub(subscribers) >= 0 THEN regs + 1 ELSE regs
            /\ led_state' =
                 IF put /\ Contains(req.payload, "LED=ON") THEN TRUE
                 ELSE IF put /\ Contains(req.payload, "LED=OFF") THEN FALSE
                 ELSE led_state
            /\ buzzer_state' =
                 IF put /\ Contains(req.payload, "BUZZER=ON") THEN FALSE
                 ELSE buzzer_state
            /\ sd_files' =
                 IF patch
                 THEN f_append(sd_files, req.payload, io = "ok")
                 ELSE sd_files
            /\ last_rx' = [req |-> req, handler |-> h,
                           out |-> IF req.type = "CON"
                                   THEN <<HandlerResponse(req, h, io)>> ELSE <<>>]
    /\ UNCHANGED <<relVars, odd_records, file_state, send_image, sent, cliVars>>

\* udp_recv_callback with an SD card that works.
ServerRecv(req, pull) == ServerRecvIO(req, pull, "ok")

\* The files on the SD card when the server starts: server.jpg fits one
\* block, server.txt takes two.
ImageSize == BLOCK_SIZE - 24
TextSize == BLOCK_SIZE + 100

\* No request received yet.
NoRx == [req |-> [type |-> "none"], handler |-> "none", out |-> <<>>]

\* The server after init_hardware and before its first event, with an SD card
\* that holds the files `files`.
SrvStartWith(files) ==
    /\ subscribers = [i \in SubIdx |-> ZeroSubscriber]
    /\ file_state = ZeroFileState
    /\ send_image = FALSE
    /\ sd_files = files
    /\ led_state = FALSE
    /\ buzzer_state = FALSE
    /\ sent = <<>>
    /\ regs = 0
    /\ last_rx = NoRx

\* The same with a server.txt of `text` bytes without a newline and a
\* server.jpg of `image` bytes.
SrvStart(text, image) ==
    SrvStartWith([text |-> text, image |-> image, appended |-> <<>>,
                  lines |-> <<>>, tail |-> text])

SrvIdle == SrvStart(TextSize, ImageSize)

(***************************************************************************)
(* coap_client.c: the files the client receives.                           *)
(***************************************************************************)
\* A file on the client's SD card is the sequence of its writes; a write is
\* [at, len, data] with data = <<source file, offset in it>>.
f_write(extents, at, payload) ==
    IF payload.len = 0 THEN extents
    ELSE Append(extents, [at |-> at, len |-> payload.len, data |-> payload.data])

\* The byte at offset x of a file: the source file and offset it was read
\* from, <<"none", 0>> where nothing was written.
RECURSIVE ByteAt(_, _)
ByteAt(extents, x) ==
    IF extents = <<>> THEN <<"none", 0>>
    ELSE LET e == extents[Len(extents)] IN
         IF e.at <= x /\ x < e.at + e.len
         THEN <<e.data[1], e.data[2] + (x - e.at)>>
         ELSE ByteAt(SubSeq(extents, 1, Len(extents) - 1), x)

\* The i-th byte of a payload read from a file.
PayloadByte(payload, i) == <<payload.data[1], payload.data[2] + i>>

\* file_handle, file_open, last_block_num and total_bytes_received before the
\* first notification; `accepted` lists the blocks written to the file.
ClosedFile ==
    [file_open |-> FALSE, last_block_num |-> 0, total_bytes_received |-> 0,
     filename |-> "", extents |-> <<>>, accepted |-> <<>>]

\* block_state = {0}.
ZeroBlockState ==
    [transfer_active |-> FALSE, current_block |-> 0, is_image |-> FALSE,
     total_bytes_received |-> 0, filename |-> "", extents |-> <<>>,
     accepted |-> <<>>]

\* The client before its first event.
CliIdle ==
    /\ client_dup_detector = coap_duplicate_detector_init
    /\ file_handle = ClosedFile
    /\ block_state = ZeroBlockState
    /\ cli_gets = <<>>
    /\ cli_out = <<>>
    /\ cli_rxn = 0
    /\ cli_wait = [append |-> FALSE, fetch |-> FALSE]

\* coap_send_ack(pcb, addr, port, &pkt, payload, len): an ACK with code 0.00,
\* no token, the message ID of pkt and the payload.
coap_send_ack(pkt, payload) ==
    [type |-> "ACK", code |-> "0.00", msg_id |-> pkt.msg_id, token |-> <<>>,
     observe |-> {}, content_format |-> {}, block2 |-> {}, payload |-> payload]

\* coap_send_block_ack: a 2.04 ACK that echoes the Block2 option.
coap_send_block_ack(pkt) ==
    [type |-> "ACK", code |-> "2.04", msg_id |-> pkt.msg_id, token |-> <<>>,
     observe |-> {}, content_format |-> {}, block2 |-> pkt.block2,
     payload |-> NoPayload]

\* coap_build_get_with_block2: CON GET /file; the Block2 option is left out of
\* the request for block 0 with SZX 6.
coap_build_get_with_block2(query, block_num, szx, msg_id) ==
    [type |-> "CON", code |-> "GET", path |-> "file", path_rest |-> <<>>,
     msg_id |-> msg_id, token |-> <<7>>, peer |-> "A", observe |-> {},
     content_format |-> {},
     block2 |-> IF block_num > 0 \/ szx # 6
                THEN {coap_encode_block2_option(block_num, FALSE, szx)}
                ELSE {},
     query |-> query, payload |-> NoPayload]

\* The client state the operators below work on: st = [pm, hist, bs, gets,
\* out].  A GET is stored for retransmission and sent.
SendGet(st, get) ==
    [st EXCEPT
        !.pm = coap_store_for_retransmit(@, get.msg_id, "S", Len(st.hist) + 1, NowMs),
        !.hist = Append(@, NewHist(get.msg_id, "S", StoreSucceeds(st.pm))),
        !.gets = Append(@, get),
        !.out = Append(@, get)]

\* request_get_file: block_state is reset, the output file is created anew
\* and the first block is requested.
request_get_file(st, request_image, msg_id) ==
    SendGet([st EXCEPT !.bs = [transfer_active |-> TRUE, current_block |-> 0,
                               is_image |-> request_image,
                               total_bytes_received |-> 0,
                               filename |-> IF request_image
                                            THEN "client_received.jpg"
                                            ELSE "client_received.txt",
                               extents |-> <<>>, accepted |-> <<>>]],
            coap_build_get_with_block2(IF request_image THEN "type=image" ELSE "",
                                       0, 6, msg_id))

\* handle_block2_response: the payload is written where the last write ended;
\* with the More bit set the next block is requested, otherwise the file is
\* closed.
handle_block2_response(st, pkt, next_id) ==
    IF ~st.bs.transfer_active \/ pkt.block2 = {} THEN st
    ELSE LET block_val == OptUint(pkt.block2)
             block_num == block_val \div (2 ^ 4)
             more == (block_val \div (2 ^ 3)) % 2 = 1
             szx == block_val % (2 ^ 3)
             st1 == [st EXCEPT
                        !.bs.extents = f_write(@, st.bs.total_bytes_received,
                                               pkt.payload),
                        !.bs.total_bytes_received = @ + pkt.payload.len,
                        !.bs.accepted =
                            Append(@, [num |-> block_num,
                                       block_size |-> 2 ^ (szx + 4),
                                       payload |-> pkt.payload])]
         IN  IF more
             THEN SendGet([st1 EXCEPT !.bs.current_block = block_num + 1],
                          coap_build_get_with_block2(
                              IF st.bs.is_image THEN "type=image" ELSE "",
                              block_num + 1, szx, next_id))
             ELSE [st1 EXCEPT !.bs.transfer_active = FALSE]

\* udp_recv_callback on an ACK (a piggy-backed response): the pending request
\* is cleared; a response with a payload and a Block2 option goes to
\* handle_block2_response while a transfer is active.
ClientAck(st, pkt, next_id) ==
    LET st1 == [st EXCEPT !.pm = coap_clear_pending_message(@, pkt.msg_id),
                          !.hist = HistAfterClear(@, st.pm, pkt.msg_id)]
    IN  IF st.bs.transfer_active /\ pkt.payload.len > 0 /\ pkt.block2 # {}
        THEN handle_block2_response(st1, pkt, next_id)
        ELSE st1

\* udp_recv_callback on a CON notification with a Block2 option that is not a
\* duplicate: fh is the file state, the result is [fh, out].
ClientBlock(fh, pkt) ==
    LET block_val == OptUint(pkt.block2)
        block_num == block_val \div (2 ^ 4)
        more == (block_val \div (2 ^ 3)) % 2 = 1
        szx == block_val % (2 ^ 3)
        block_size == 2 ^ (szx + 4)
        fh1 == IF block_num = 0 /\ ~fh.file_open
               THEN [file_open |-> TRUE, last_block_num |-> 0,
                     total_bytes_received |-> 0,
                     filename |-> IF pkt.content_format # {}
                                     /\ OptUint(pkt.content_format) = 22
                                  THEN "from_server.jpg" ELSE "from_server.txt",
                     extents |-> <<>>, accepted |-> <<>>]
               ELSE fh
        fh2 == [fh1 EXCEPT
                   !.extents = f_write(@, block_num * block_size, pkt.payload),
                   !.total_bytes_received = @ + pkt.payload.len,
                   !.last_block_num = IF block_num = @ THEN @ + 1 ELSE @,
                   !.accepted = Append(@, [num |-> block_num,
                                           block_size |-> block_size,
                                           payload |-> pkt.payload])]
    IN  IF fh1.file_open /\ block_num > 0 /\ block_num < fh1.last_block_num
        THEN [fh |-> fh1, out |-> <<coap_send_block_ack(pkt)>>]
        ELSE IF fh1.file_open /\ block_num > 0 /\ block_num > fh1.last_block_num
        THEN [fh |-> fh1, out |-> <<>>]
        ELSE IF ~fh1.file_open
        THEN [fh |-> fh1, out |-> <<>>]
        ELSE [fh |-> IF more THEN fh2
                     ELSE [fh2 EXCEPT !.file_open = FALSE, !.last_block_num = 0,
                                      !.total_bytes_received = 0],
              out |-> <<coap_send_block_ack(pkt)>>]

(***************************************************************************)
(* The reliability engine on its own: sends, ACKs, the main loop.          *)
(***************************************************************************)
RelInit ==
    /\ pending_messages = coap_reliability_init
    /\ boot_offset \in {0, ClockWrap - ToUnits(ACK_TIMEOUT_MS)}
    /\ elapsed = 0
    /\ pkt_hist = <<>>
    /\ stalls = 0
    /\ alloc_fails = 0
    /\ DupIdle
    /\ SrvIdle
    /\ CliIdle

\* A confirmable send: the message is stored for retransmission and sent.
StoreMsg(m, d) ==
    /\ Len(pkt_hist) < MaxStores
    /\ elapsed <= StoreWindow * TickMs
    /\ pending_messages' =
         coap_store_for_retransmit(pending_messages, m, d, Len(pkt_hist) + 1, NowMs)
    /\ pkt_hist' = Append(pkt_hist, NewHist(m, d, StoreSucceeds(pending_messages)))
    /\ UNCHANGED <<boot_offset, elapsed, stalls, alloc_fails>>
    /\ UNCHANGED <<dupVars, srvVars, cliVars>>

\* An ACK with message ID m arrives: coap_clear_pending_message(m).
AckMsg(m) ==
    /\ pending_messages' = coap_clear_pending_message(pending_messages, m)
    /\ pkt_hist' = HistAfterClear(pkt_hist, pending_messages, m)
    /\ UNCHANGED <<boot_offset, elapsed, stalls, alloc_fails>>
    /\ UNCHANGED <<dupVars, srvVars, cliVars>>

\* A run lasts MaxTicks periods at most, and ends once the send window is
\* over and nothing is pending.
RunOpen ==
    /\ elapsed < MaxTicks * TickMs
    /\ \/ elapsed <= StoreWindow * TickMs
       \/ \E i \in Slots : pending_messages[i].active

\* One period of the main loop: coap_check_retransmissions, then the clock
\* moves on.
MainLoop(nomem) ==
    /\ RunOpen
    /\ stalls + alloc_fails + Cardinality(nomem) <= MaxDisturb
    /\ pending_messages' = coap_check_retransmissions(pending_messages, NowMs, nomem)
    /\ pkt_hist' = HistAfterCheck(pending_messages, NowMs, nomem)
    /\ alloc_fails' = alloc_fails + Cardinality(nomem)
    /\ elapsed' = elapsed + TickMs
    /\ UNCHANGED <<boot_offset, stalls>>
    /\ UNCHANGED <<dupVars, srvVars, cliVars>>

\* A period in which a handler holds the loop up (sleep_ms in the handlers):
\* the clock moves on and no check runs.
Stall ==
    /\ RunOpen
    /\ stalls + alloc_fails < MaxDisturb
    /\ \E i \in Slots : Due(pending_messages, i, NowMs)
    /\ elapsed' = elapsed + TickMs
    /\ stalls' = stalls + 1
    /\ UNCHANGED <<pending_messages, boot_offset, pkt_hist, alloc_fails>>
    /\ UNCHANGED <<dupVars, srvVars, cliVars>>

RelNext ==
    \/ \E m \in MsgIds : StoreMsg(m, "A")
    \/ \E m \in MsgIds : AckMsg(m)
    \/ \E nomem \in SUBSET ResentSlots(pending_messages, NowMs, {}) : MainLoop(nomem)
    \/ Stall

SpecRel == RelInit /\ [][RelNext]_vars

(***************************************************************************)
(* Properties of the reliability engine.                                   *)
(***************************************************************************)
Packets == 1 .. Len(pkt_hist)

\* Packet p sits in an active slot of the table.
Pending(p) ==
    \E i \in Slots : pending_messages[i].active /\ pending_messages[i].packet = p

\* Time from the store of packet p to the event at time t, in ms.
Since(p, t) == t - pkt_hist[p].stored_at

\* Time of the k-th re-emission after the store when every delay is kept
\* exactly: ACK_TIMEOUT_MS * (2^k - 1); k = MAX_RETRANSMITS + 1 is exhaustion.
Sched(k) == ACK_TIMEOUT_MS * ((2 ^ k) - 1)

ExhaustionMs == Sched(MAX_RETRANSMITS + 1)

\* The run was not disturbed: the clock starts at 0 (no wrap-around), the
\* check ran in every period, every pbuf_alloc succeeded.
Undisturbed == boot_offset = 0 /\ stalls = 0 /\ alloc_fails = 0

\* C1: a stored message is re-emitted at most MAX_RETRANSMITS times (so it is
\* transmitted at most MAX_RETRANSMITS + 1 times); once it is reported as
\* failed its slot is released and no re-emission follows the report.
C1_AtMostMaxRetransmits ==
    \A p \in Packets :
        /\ Len(pkt_hist[p].retx) <= MAX_RETRANSMITS
        /\ pkt_hist[p].fails # <<>> =>
              /\ ~Pending(p)
              /\ \A k \in 1 .. Len(pkt_hist[p].retx) :
                    pkt_hist[p].retx[k] < pkt_hist[p].fails[1].at

\* A never-cleared message that was re-emitted MAX_RETRANSMITS times and then
\* reported.
C1_Witness ==
    \E p \in Packets :
        /\ pkt_hist[p].stored /\ ~pkt_hist[p].cleared
        /\ Len(pkt_hist[p].retx) = MAX_RETRANSMITS
        /\ pkt_hist[p].fails # <<>>

\* C2: the failure callback is invoked at most once per stored message, with
\* its message ID, never for a message an ACK cleared, and no earlier than
\* 62 000 ms after the message was stored.
C2_FailureOnceNotBefore62s ==
    \A p \in Packets :
        /\ Len(pkt_hist[p].fails) <= 1
        /\ pkt_hist[p].fails # <<>> =>
              /\ ~pkt_hist[p].cleared
              /\ pkt_hist[p].fails[1].msg_id = pkt_hist[p].msg_id
              /\ Since(p, pkt_hist[p].fails[1].at) >= ExhaustionMs

\* C3 as stated: with the check run in every period, a never-ACKed message is
\* re-emitted 2 s, 4 s, 8 s and 16 s after its store and reported, with its
\* message ID, 32 s after the last re-emission.
C3_ScheduleAsStated ==
    \A p \in Packets :
        (Undisturbed /\ ~pkt_hist[p].cleared /\ pkt_hist[p].fails # <<>>) =>
            /\ Len(pkt_hist[p].retx) = MAX_RETRANSMITS
            /\ \A k \in 1 .. MAX_RETRANSMITS :
                  Since(p, pkt_hist[p].retx[k]) = ACK_TIMEOUT_MS * (2 ^ (k - 1))
            /\ pkt_hist[p].fails[1].msg_id = pkt_hist[p].msg_id
            /\ pkt_hist[p].fails[1].at - pkt_hist[p].retx[MAX_RETRANSMITS]
                  = Backoff(MAX_RETRANSMITS)

\* C3, amended: in an undisturbed run the k-th re-emission of a message
\* happens ACK_TIMEOUT_MS * (2^k - 1) after its store (2 s, 6 s, 14 s, 30 s),
\* and a never-ACKed message is reported, with its message ID, 32 s after the
\* last re-emission, 62 s after its store; none of these events is late.
C3_Schedule ==
    \A p \in Packets :
        (Undisturbed /\ pkt_hist[p].stored) =>
            /\ \A k \in 1 .. Len(pkt_hist[p].retx) :
                  Since(p, pkt_hist[p].retx[k]) = Sched(k)
            /\ pkt_hist[p].fails # <<>> =>
                  /\ Len(pkt_hist[p].retx) = MAX_RETRANSMITS
                  /\ pkt_hist[p].fails[1].msg_id = pkt_hist[p].msg_id
                  /\ Since(p, pkt_hist[p].fails[1].at) = ExhaustionMs
                  /\ pkt_hist[p].fails[1].at - pkt_hist[p].retx[MAX_RETRANSMITS]
                        = Backoff(MAX_RETRANSMITS)
            /\ Pending(p) =>
                  /\ \A k \in 1 .. MAX_RETRANSMITS :
                        Since(p, elapsed) > Sched(k) => Len(pkt_hist[p].retx) >= k
                  /\ Since(p, elapsed) <= ExhaustionMs

\* A never-ACKed message of an undisturbed run, re-emitted four times and
\* reported.
C3_Witness ==
    \E p \in Packets :
        /\ Undisturbed /\ pkt_hist[p].stored /\ ~pkt_hist[p].cleared
        /\ Len(pkt_hist[p].retx) = MAX_RETRANSMITS
        /\ pkt_hist[p].fails # <<>>
        /\ elapsed > pkt_hist[p].fails[1].at

\* C4: once an ACK with message ID m is processed no active slot holds m (so
\* m is neither retransmitted nor reported afterwards); slots with other
\* message IDs are left as they were, and with no active slot holding m the
\* table is unchanged.
C4_AckClearsEverySlot ==
    [][\A m \in MsgIds :
          AckMsg(m) =>
             /\ \A i \in Slots :
                   ~(pending_messages'[i].active /\ pending_messages'[i].msg_id = m)
             /\ \A i \in Slots :
                   pending_messages[i].msg_id # m =>
                      pending_messages'[i] = pending_messages[i]
             /\ (\A i \in Slots :
                    ~(pending_messages[i].active /\ pending_messages[i].msg_id = m))
                   => pending_messages' = pending_messages]_vars

(***************************************************************************)
(* The duplicate detector on its own: init, then records.                  *)
(***************************************************************************)
RelIdle ==
    /\ pending_messages = coap_reliability_init
    /\ boot_offset = 0
    /\ elapsed = 0
    /\ pkt_hist = <<>>
    /\ stalls = 0
    /\ alloc_fails = 0

DupInit == RelIdle /\ DupIdle /\ SrvIdle /\ CliIdle

\* A message ID that was never recorded: 1, 2, 3, ... as in
\* unit_test_reliability_circular_buffer.
FreshId == Len(rec_log) + 1

\* The other IDs a record may carry: zero, the top of the 16-bit range, the
\* oldest and the newest ID recorded so far.
OddIds ==
    {0, U16 - 1} \cup
    (IF rec_log = <<>> THEN {} ELSE {rec_log[1], rec_log[Len(rec_log)]})

RecordFresh ==
    /\ Len(rec_log) < MaxRecords
    /\ server_dup_detector' = coap_record_message_id(server_dup_detector, FreshId)
    /\ rec_log' = Append(rec_log, FreshId)
    /\ UNCHANGED <<odd_records, relVars, srvVars, cliVars>>

RecordOdd(id) ==
    /\ Len(rec_log) < MaxRecords
    /\ odd_records < MaxOddRecords
    /\ server_dup_detector' = coap_record_message_id(server_dup_detector, id)
    /\ rec_log' = Append(rec_log, id)
    /\ odd_records' = odd_records + 1
    /\ UNCHANGED <<relVars, srvVars, cliVars>>

DupNext ==
    \/ RecordFresh
    \/ \E id \in OddIds : RecordOdd(id)

SpecDup == DupInit /\ [][DupNext]_vars

(***************************************************************************)
(* Properties of the duplicate detector.                                   *)
(***************************************************************************)
\* The last RECENT_MSG_HISTORY recorded message IDs.
LastRecorded ==
    {rec_log[k] : k \in {j \in 1 .. Len(rec_log) : j > Len(rec_log) - RECENT_MSG_HISTORY}}

\* The IDs the detector is asked about.
ProbeIds == (0 .. (MaxRecords + 1)) \cup {U16 - 1}

\* C6: after init and any sequence of records, an ID is reported as a
\* duplicate exactly when it is among the last RECENT_MSG_HISTORY recorded
\* IDs (none right after init, every ID right after it is recorded).
C6_DuplicateIffInWindow ==
    \A id \in ProbeIds :
        coap_is_duplicate_message(server_dup_detector, id) <=> id \in LastRecorded

\* Records of pairwise distinct non-zero IDs.
DistinctNonZero ==
    /\ \A k \in 1 .. Len(rec_log) : rec_log[k] # 0
    /\ \A j, k \in 1 .. Len(rec_log) : j # k => rec_log[j] # rec_log[k]

\* C7: after n records of pairwise distinct non-zero IDs the detector reports
\* the RECENT_MSG_HISTORY most recent ones as duplicates and none of the
\* earlier ones: records are forgotten oldest first, one per record beyond
\* the RECENT_MSG_HISTORY-th.
C7_ForgetsOldestFirst ==
    DistinctNonZero =>
        \A k \in 1 .. Len(rec_log) :
            coap_is_duplicate_message(server_dup_detector, rec_log[k])
                <=> k > Len(rec_log) - RECENT_MSG_HISTORY

\* More than RECENT_MSG_HISTORY distinct non-zero records: the newest is a
\* duplicate, the oldest is forgotten, the second oldest may still be there.
C7_Witness ==
    /\ DistinctNonZero
    /\ Len(rec_log) = RECENT_MSG_HISTORY + 1
    /\ coap_is_duplicate_message(server_dup_detector, rec_log[Len(rec_log)])
    /\ coap_is_duplicate_message(server_dup_detector, rec_log[2])
    /\ ~coap_is_duplicate_message(server_dup_detector, rec_log[1])

(***************************************************************************)
(* The server with the push transfer: registrations, buttons, ACKs, loop.  *)
(***************************************************************************)
PushInit == RelIdle /\ DupIdle /\ SrvIdle /\ CliIdle

\* A request as the server parses it.
Request(type, code, path, msg_id, peer, observe, block2, query, payload) ==
    [type |-> type, code |-> code, path |-> path, path_rest |-> <<>>,
     msg_id |-> msg_id, token |-> <<7>>, peer |-> peer, observe |-> observe,
     content_format |-> {}, block2 |-> block2, query |-> query,
     payload |-> payload]

\* Registrations, button presses and ACKs happen in the first StoreWindow
\* periods of a run; what is pending then runs to its end.
InWindow == elapsed <= StoreWindow * TickMs

\* An Observe registration arrives: CON GET /buttons with Observe = 0.
PushRegister(peer, m) ==
    /\ regs < MaxRegs
    /\ InWindow
    /\ ServerRecv(Request("CON", "GET", "buttons", m, peer,
                          {coap_set_option_uint(0)}, {}, "", NoPayload), FALSE)

\* The payload of the notification of button b: one byte, or a string.
ButtonPayload(b) ==
    IF b = 1 THEN [len |-> 1, data |-> <<66>>]
    ELSE [len |-> 18, data |-> <<"Hello from Server!">>]

\* What the actions below leave alone.
PushRest == <<boot_offset, stalls, alloc_fails, dupVars, sd_files, led_state,
              buzzer_state, regs, last_rx, cliVars>>

\* Button 1 or 2 is pressed: a notification to every active subscriber, with
\* message IDs msg_ids.  (In the runs of the server every pbuf_alloc
\* succeeds.)
PushButton(b, msg_ids) ==
    /\ InWindow
    /\ ActiveSubs(subscribers) # {}
    /\ \E st \in {ButtonBroadcast(SrvSt, 0, msg_ids, {}, ButtonPayload(b), elapsed)} :
          /\ Len(st.log) <= MaxNotifs
          /\ Commit(st)
    /\ UNCHANGED <<PushRest, elapsed, send_image>>

\* Button 3 is pressed: send_image toggles and the transfer of the image or
\* of the text file starts.
PushButton3(msg_id) ==
    LET image == ~send_image IN
    /\ InWindow
    /\ \E st \in {start_file_transfer(SrvSt, image,
                                      IF image THEN sd_files.image ELSE sd_files.text,
                                      msg_id, TRUE, elapsed)} :
          /\ Len(st.log) <= MaxNotifs
          /\ Commit(st)
    /\ send_image' = image
    /\ UNCHANGED <<PushRest, elapsed>>

\* Notification n has been on the wire.
OnWire(n) == sent[n].first_sent \/ pkt_hist[n].retx # <<>>

\* An ACK of notification n arrives (for the first time or again): it comes
\* from the notification's destination with its message ID and its Block2
\* option; a block it releases is sent with message ID next_id.
PushAck(n, next_id) ==
    /\ InWindow
    /\ OnWire(n)
    /\ \E st \in {AckHandler(SrvSt, sent[n].dest, sent[n].pkt.msg_id,
                             sent[n].pkt.block2, next_id, TRUE, elapsed)} :
          /\ Len(st.log) <= MaxNotifs
          /\ Commit(st)
    /\ UNCHANGED <<PushRest, elapsed, send_image>>

\* The clock reading of the next check that finds a slot due (the present
\* one if a slot is due already, or if no slot is active).
NextCheck ==
    LET active == {i \in Slots : pending_messages[i].active}
        now == ToUnits(elapsed)
        next == First({pending_messages[i].next_retry_ms : i \in active})
    IN  IF next <= now THEN now ELSE next

\* The main loop up to the next moment a slot is due:
\* coap_check_retransmissions with the failure callback, then (when 5 s have
\* passed since the last one) prune_dead_subscribers; a pass that drops
\* nobody is a loop without one.
PushLoop ==
    \E t \in {NextCheck} :
       /\ t * ClockUnit <= MaxTicks * TickMs
       /\ \E st1 \in {on_retransmit_failure(
                         [SrvSt EXCEPT
                             !.pm = coap_check_retransmissions(pending_messages, t, {}),
                             !.hist = HistAfterCheckAt(pkt_hist, pending_messages,
                                                       t, {}, t * ClockUnit)],
                         pending_messages, FailedSlots(pending_messages, t))} :
             \E prune \in BOOLEAN :
                IF prune
                THEN /\ prune_dead_subscribers(st1.subs, t) # st1.subs
                     /\ Commit([st1 EXCEPT !.subs = prune_dead_subscribers(@, t)])
                ELSE /\ \E i \in Slots : pending_messages[i].active
                     /\ Commit(st1)
       /\ elapsed' = t * ClockUnit
       /\ UNCHANGED <<PushRest, send_image>>

\* The first registration comes from peer "A" and the first notification
\* draws the message ID 0: the runs that start otherwise are these runs with
\* the peers or the IDs renamed.
RegPeers == IF regs = 0 THEN {"A"} ELSE Peers
FirstId == First(MsgIds)

PushNext ==
    \/ \E peer \in RegPeers : PushRegister(peer, regs + 1)
    \/ \E b \in {1, 2}, msg_ids \in [ActiveSubs(subscribers) -> MsgIds] :
          /\ PushButton(b, msg_ids)
          /\ sent = <<>> => msg_ids[First(ActiveSubs(subscribers))] = FirstId
    \/ \E msg_id \in MsgIds :
          /\ sent = <<>> => msg_id = FirstId
          /\ PushButton3(msg_id)
    \/ \E n \in DOMAIN sent, next_id \in MsgIds :
          /\ PushAck(n, next_id)
          /\ sent' = sent => next_id = FirstId
    \/ PushLoop

SpecPush == PushInit /\ [][PushNext]_vars

(***************************************************************************)
(* Properties of the push transfer.                                        *)
(***************************************************************************)
\* The Observe value notification n carries.
ObserveOf(n) == OptUint(sent[n].pkt.observe)

\* The block notifications, and the block number one carries.
BlockNotifs == {n \in DOMAIN sent : sent[n].pkt.block2 # {}}
BlockNumOf(n) == Block2Num(OptUint(sent[n].pkt.block2))

\* C8: for every subscriber (an entry of the table, from its registration
\* on), whatever the interleaving of button broadcasts and file blocks, the
\* Observe values of the notifications first sent to it are strictly
\* increasing in the order they are sent.
C8_ObserveStrictlyIncreasing ==
    \A p, q \in DOMAIN sent :
        (/\ p < q
         /\ sent[p].sid = sent[q].sid
         /\ sent[p].first_sent /\ sent[q].first_sent)
            => ObserveOf(p) < ObserveOf(q)

\* One subscriber was sent a button notification, then a file block, then a
\* button notification again.
C8_Witness ==
    \E p, q, r \in DOMAIN sent :
        /\ p < q /\ q < r
        /\ sent[p].sid = sent[q].sid /\ sent[q].sid = sent[r].sid
        /\ sent[p].first_sent /\ sent[q].first_sent /\ sent[r].first_sent
        /\ p \notin BlockNotifs /\ q \in BlockNotifs /\ r \notin BlockNotifs

\* C9: at most one block notification is outstanding (stored and neither
\* ACKed nor given up) at any time, and a block N+1 is only emitted after a
\* block N that was ACKed: blocks come in the order 0, 1, 2, ...
C9_OneBlockOutstanding ==
    /\ Cardinality({n \in BlockNotifs : Pending(n)}) <= 1
    /\ \A q \in BlockNotifs :
          BlockNumOf(q) > 0 =>
             \E p \in BlockNotifs :
                /\ p < q
                /\ BlockNumOf(p) = BlockNumOf(q) - 1
                /\ pkt_hist[p].cleared

(***************************************************************************)
(* The server with GET /file: the requests it receives.                    *)
(***************************************************************************)
SrvInit == RelIdle /\ DupIdle /\ SrvIdle /\ CliIdle

\* Message IDs of the requests: zero and another one.
ReqIds == {0, 1}

\* The requests a client sends.
Requests ==
    {Request(type, "GET", "buttons", m, "A", obs, {}, "", NoPayload) :
        type \in {"CON", "NON"}, m \in ReqIds,
        obs \in {{}, {coap_set_option_uint(0)}}}
    \cup
    {Request("CON", code, "actuators", m, "A", {}, {}, "", pl) :
        code \in {"GET", "PUT"}, m \in ReqIds,
        pl \in {NoPayload, [len |-> 6, data |-> <<"LED=ON">>],
                [len |-> 17, data |-> <<"LED=OFF", "BUZZER=ON">>]}}
    \cup
    {Request(type, code, "file", m, "A", {}, {}, "", pl) :
        type \in {"CON", "NON"}, code \in {"iPATCH", "DELETE"}, m \in ReqIds,
        pl \in {NoPayload, [len |-> 4, data |-> <<"line">>]}}
    \cup
    {Request("CON", "GET", "file", m, "A", {}, b2, q, NoPayload) :
        m \in ReqIds, b2 \in {{}, {coap_set_option_uint(Block2Val(1, FALSE))}},
        q \in {"", "type=image"}}
    \cup
    \* Paths that are in no entry of the table: another case, two segments,
    \* no Uri-Path at all; and FETCH /file.
    {[Request(type, "GET", path, m, "A", {}, {}, "", NoPayload)
         EXCEPT !.path_rest = rest] :
        type \in {"CON", "NON"}, m \in ReqIds,
        path \in {"file", "Buttons", ""}, rest \in {<<>>, <<"x">>}}
    \cup
    {Request("CON", "FETCH", "file", m, "A", {}, {}, "",
             [len |-> 3, data |-> <<"0", ",", "1">>]) :
        m \in ReqIds}

\* A request arrives.
SrvRecv(req) ==
    /\ ServerRecv(req, TRUE)
    /\ Len(rec_log') <= MaxRequests

SrvNext == \E req \in Requests : SrvRecv(req)

SpecSrv == SrvInit /\ [][SrvNext]_vars

(***************************************************************************)
(* Properties of the request path.                                         *)
(***************************************************************************)
IsGetFile(req) == req.code = "GET" /\ req.path = "file"

\* C5: a CON request other than GET /file whose message ID is among the last
\* RECENT_MSG_HISTORY recorded ones is answered by one empty ACK with that
\* message ID and no handler runs: the subscribers, the actuators and the
\* files are as before.
C5_DuplicateConOnlyAcked ==
    [][\A req \in Requests :
          (/\ SrvRecv(req)
           /\ req.type = "CON" /\ ~IsGetFile(req)
           /\ req.msg_id \in LastRecorded)
             => /\ last_rx'.out = <<EmptyAck(req)>>
                /\ last_rx'.handler = "none"
                /\ UNCHANGED <<subscribers, led_state, buzzer_state, sd_files>>]_vars

(***************************************************************************)
(* The client receiving files: GET /file and block notifications.          *)
(***************************************************************************)
CliInit == RelIdle /\ DupIdle /\ SrvIdle /\ CliIdle

CliSt ==
    [pm |-> pending_messages, hist |-> pkt_hist, bs |-> block_state,
     gets |-> cli_gets, out |-> <<>>]

CliCommit(st) ==
    /\ pending_messages' = st.pm
    /\ pkt_hist' = st.hist
    /\ block_state' = st.bs
    /\ cli_gets' = st.gets
    /\ cli_out' = st.out

\* What the client's actions leave alone.
CliRest == <<boot_offset, elapsed, stalls, alloc_fails, dupVars, srvVars>>

\* The GET /file button is pressed: request_get_file.
CliRequestFile(request_image, msg_id) ==
    /\ Len(cli_gets) < MaxGets
    /\ CliCommit(request_get_file(CliSt, request_image, msg_id))
    /\ UNCHANGED <<CliRest, client_dup_detector, file_handle, cli_rxn, cli_wait>>

\* The server's response to the client's g-th GET arrives (for the first
\* time or again: the server answers every copy of a GET /file it gets).
CliRecvResponse(g, next_id) ==
    /\ cli_rxn < MaxCliRx
    /\ \E st \in {ClientAck(CliSt, handle_get_file(cli_gets[g], sd_files), next_id)} :
          /\ Len(st.gets) <= MaxGets
          /\ CliCommit(st)
    /\ cli_rxn' = cli_rxn + 1
    /\ UNCHANGED <<CliRest, client_dup_detector, file_handle, cli_wait>>

\* The notifications the server sends: a button notification and the blocks
\* of its two files, block n with message ID n + 1 or 0.
FileBlocks(size) == 0 .. (((size + BLOCK_SIZE - 1) \div BLOCK_SIZE) - 1)

Notifications ==
    {NotificationPacket(<<7>>, MaxNotifs + 2, 0, ButtonPayload(1),
                        FALSE, 0, FALSE, FALSE)}
    \cup
    {NotificationPacket(<<7>>, MaxNotifs + 1, 0,
                        BlockPayload(TRUE, n, BytesRead(sd_files.image, n)), TRUE,
                        n, BytesRead(sd_files.image, n) = BLOCK_SIZE, TRUE) :
        n \in FileBlocks(sd_files.image)}
    \cup
    UNION {{NotificationPacket(<<7>>, m, n,
                               BlockPayload(FALSE, n, BytesRead(sd_files.text, n)),
                               TRUE, n, BytesRead(sd_files.text, n) = BLOCK_SIZE,
                               FALSE) : m \in {0, n + 1}} :
              n \in FileBlocks(sd_files.text)}

\* A CON notification arrives: a duplicate is ACKed again; a block is handled
\* as above; a button notification is ACKed with its payload.
CliRecvNotification(pkt) ==
    /\ cli_rxn < MaxCliRx
    /\ cli_rxn' = cli_rxn + 1
    /\ IF coap_is_duplicate_message(client_dup_detector, pkt.msg_id)
       THEN /\ cli_out' = <<IF pkt.block2 # {} THEN coap_send_block_ack(pkt)
                            ELSE coap_send_ack(pkt, NoPayload)>>
            /\ UNCHANGED <<client_dup_detector, file_handle>>
       ELSE /\ client_dup_detector' =
                 coap_record_message_id(client_dup_detector, pkt.msg_id)
            /\ IF pkt.block2 # {}
               THEN \E r \in {ClientBlock(file_handle, pkt)} :
                       /\ file_handle' = r.fh
                       /\ cli_out' = r.out
               ELSE /\ cli_out' = IF pkt.payload.len >= 1
                                  THEN <<coap_send_ack(pkt, pkt.payload)>> ELSE <<>>
                    /\ UNCHANGED file_handle
    /\ UNCHANGED <<CliRest, pending_messages, pkt_hist, block_state, cli_gets, cli_wait>>

CliNext ==
    \/ \E request_image \in BOOLEAN, msg_id \in MsgIds :
          CliRequestFile(request_image, msg_id)
    \/ \E g \in DOMAIN cli_gets, next_id \in MsgIds : CliRecvResponse(g, next_id)
    \/ \E pkt \in Notifications : CliRecvNotification(pkt)

SpecCli == CliInit /\ [][CliNext]_vars

(***************************************************************************)
(* Properties of the client's files.                                       *)
(***************************************************************************)
\* In a file f, the bytes of every block accepted (of the last one accepted
\* with its number) are at the block's offset.
BlocksInPlace(f) ==
    \A a \in 1 .. Len(f.accepted) :
        (\A b \in 1 .. Len(f.accepted) : b > a => f.accepted[b].num # f.accepted[a].num)
        => \A i \in 0 .. (f.accepted[a].payload.len - 1) :
              ByteAt(f.extents, f.accepted[a].num * f.accepted[a].block_size + i)
                 = PayloadByte(f.accepted[a].payload, i)

\* C10: in both receive streams (block notifications, responses to GET
\* /file) and after any sequence of received datagrams, the byte at offset
\* k * block_size + i of the file is byte i of the accepted block k.
C10_BlockBytesAtOffset ==
    /\ BlocksInPlace(file_handle)
    /\ BlocksInPlace(block_state)

\* The block number a block notification carries.
PktBlockNum(pkt) == Block2Num(OptUint(pkt.block2))

\* C11: with the receive stream open and expecting block E, a block
\* notification N that the duplicate detector lets through is accepted
\* (written, E incremented) exactly when N = E; with N < E it is ACKed with
\* the echoed Block2 option and not written; with N > E it is dropped without
\* an ACK and the file and E stay as they are.  N = 0 included.
C11_AcceptedIffExpected ==
    [][\A pkt \in Notifications :
          (/\ CliRecvNotification(pkt)
           /\ pkt.block2 # {}
           /\ file_handle.file_open
           /\ ~coap_is_duplicate_message(client_dup_detector, pkt.msg_id))
             => /\ (PktBlockNum(pkt) = file_handle.last_block_num)
                      <=> (file_handle'.accepted # file_handle.accepted)
                /\ PktBlockNum(pkt) < file_handle.last_block_num
                      => /\ cli_out' = <<coap_send_block_ack(pkt)>>
                         /\ UNCHANGED file_handle
                /\ PktBlockNum(pkt) > file_handle.last_block_num
                      => /\ cli_out' = <<>>
                         /\ UNCHANGED file_handle]_vars

(***************************************************************************)
(* GET /file on its own: files of several sizes, requests for their blocks. *)
(***************************************************************************)
\* Highest block number requested.
MaxBlockNum == 3

\* Sizes of server.txt: empty, one byte, one block, a block and a bit, two
\* blocks, and the 2500 bytes of three blocks.
FileSizes == {0, 1, BLOCK_SIZE, TextSize, 2 * BLOCK_SIZE, 2 * BLOCK_SIZE + 452}

\* SZX values requested: 16, 512 and 1024 bytes, and the reserved value 7.
Szxs == {0, 5, 6, 7}

FileInit ==
    /\ RelIdle /\ DupIdle /\ CliIdle
    /\ \E text \in FileSizes, image \in {0, ImageSize} : SrvStart(text, image)

\* CON GET /file for block num with size exponent szx, as
\* coap_build_get_with_block2 builds it, with message ID m.
FileRequest(num, szx, query, m) ==
    [coap_build_get_with_block2(query, num, szx, m) EXCEPT !.msg_id = m]

FileRequests ==
    {FileRequest(num, szx, query, m) :
        num \in 0 .. MaxBlockNum, szx \in Szxs, query \in {"", "type=image"},
        m \in ReqIds}

FileRecv(req) == ServerRecv(req, TRUE)

FileNext == \E req \in FileRequests : FileRecv(req)

SpecFile == FileInit /\ [][FileNext]_vars

\* The reply the server gave to the last request.
LastReply == last_rx.out[1]

\* Bytes [lo, hi) of the file `name`: len bytes from lo on.
IsFileRange(payload, name, lo, hi) ==
    /\ payload.len = (IF hi > lo THEN hi - lo ELSE 0)
    /\ \A i \in 0 .. (payload.len - 1) : PayloadByte(payload, i) = <<name, lo + i>>

Min(a, b) == IF a < b THEN a ELSE b

\* The reply to the request for block num with size exponent szx of a file
\* `name` of `size` bytes is the block the request names.
IsBlockOf(reply, num, szx, name, size) ==
    LET B == 2 ^ (szx + 4)
        v == OptUint(reply.block2)
    IN  /\ reply.code = "2.05"
        /\ reply.block2 # {}
        /\ v \div (2 ^ 4) = num
        /\ v % (2 ^ 3) = szx
        /\ ((v \div (2 ^ 3)) % 2 = 1) <=> ((num + 1) * B < size)
        /\ IsFileRange(reply.payload, name, num * B, Min(size, (num + 1) * B))

TableEntries ==
    {[method |-> "GET", path |-> "buttons", handler |-> "handle_get_buttons"],
     [method |-> "GET", path |-> "actuators", handler |-> "handle_get_actuators"],
     [method |-> "GET", path |-> "file", handler |-> "handle_get_file"],
     [method |-> "PUT", path |-> "actuators", handler |-> "handle_put_actuators"],
     [method |-> "iPATCH", path |-> "file", handler |-> "handle_ipatch_file"],
     [method |-> "FETCH", path |-> "file", handler |-> "handle_fetch_file"]}

\* The entries a request matches: same method, same segments.
EntriesOf(req) ==
    {e \in TableEntries : e.method = req.code /\ <<e.path>> = <<req.path>> \o req.path_rest}

\* The request is not one the server takes for a duplicate.
PassesDetector(req) ==
    \/ req.code = "GET" /\ req.path = "file"
    \/ ~coap_is_duplicate_message(server_dup_detector, req.msg_id)

MaxRegRequests == 6
\* Number of main-loop periods that pass in such a run.
MaxRegTicks == 1

RegInit == RelIdle /\ DupIdle /\ SrvIdle /\ CliIdle

\* CON GET /buttons from peer with token, with Observe = 0 or without the
\* option; the requests of a run have the message IDs 1, 2, ...
RegRequests ==
    {[Request("CON", "GET", "buttons", Len(rec_log) + 1, peer, obs, {}, "", NoPayload)
         EXCEPT !.token = token] :
        peer \in Peers, token \in {<<7>>, <<8>>},
        obs \in {{}, {coap_set_option_uint(0)}}}

RegRecv(req) ==
    /\ Len(rec_log) < MaxRegRequests
    /\ ServerRecv(req, TRUE)

\* Time passes: one period of the main loop, with nothing pending.
RegTick ==
    /\ elapsed < MaxRegTicks * TickMs
    /\ elapsed' = elapsed + TickMs
    /\ UNCHANGED <<pending_messages, boot_offset, pkt_hist, stalls, alloc_fails,
                   dupVars, srvVars, cliVars>>

RegNext ==
    \/ \E req \in RegRequests : RegRecv(req)
    \/ RegTick

SpecReg == RegInit /\ [][RegNext]_vars

\* The request is an Observe registration.
IsRegistration(req) ==
    /\ req.code = "GET" /\ req.path = "buttons" /\ req.path_rest = <<>>
    /\ req.observe # {} /\ OptUint(req.observe) = 0

\* C15: with a free slot, a CON GET /buttons with Observe = 0 activates one
\* slot with the peer and the token of the request, observe_seq = 0,
\* timeout_sessions = 0 and last_ack_time = now, and is answered by an ACK
\* with the request's message ID and token, code 2.05, Observe = 0 and no
\* payload; without an Observe option nothing is registered and the reply
\* carries the button state.
C15_Registration ==
    [][\A req \in RegRequests :
          (last_rx'.req = req /\ RegRecv(req))
             => /\ (IsRegistration(req) /\ ActiveSubs(subscribers) # SubIdx)
                   => /\ \E i \in SubIdx \ ActiveSubs(subscribers) :
                            /\ \A j \in SubIdx \ {i} : subscribers'[j] = subscribers[j]
                            /\ subscribers'[i].active
                            /\ subscribers'[i].peer = req.peer
                            /\ subscribers'[i].token = req.token
                            /\ subscribers'[i].observe_seq = 0
                            /\ subscribers'[i].timeout_sessions = 0
                            /\ subscribers'[i].last_ack_time = NowMs
                      /\ Len(last_rx'.out) = 1
                      /\ last_rx'.out[1].type = "ACK"
                      /\ last_rx'.out[1].msg_id = req.msg_id
                      /\ last_rx'.out[1].token = req.token
                      /\ last_rx'.out[1].code = "2.05"
                      /\ last_rx'.out[1].observe # {}
                      /\ OptUint(last_rx'.out[1].observe) = 0
                      /\ last_rx'.out[1].payload.len = 0
                /\ req.observe = {}
                   => /\ UNCHANGED subscribers
                      /\ Len(last_rx'.out) = 1
                      /\ last_rx'.out[1].code = "2.05"
                      /\ last_rx'.out[1].observe = {}
                      /\ last_rx'.out[1].payload = [len |-> 22, data |-> <<"BTN">>]]_vars

\* Two peers are registered, the second after time has passed, and a GET
\* /buttons without Observe was answered last.
C15_Witness ==
    /\ \E i, j \in ActiveSubs(subscribers) :
          /\ subscribers[i].peer # subscribers[j].peer
          /\ subscribers[i].token # subscribers[j].token
          /\ subscribers[j].last_ack_time > 0
    /\ last_rx.req.type = "CON"
    /\ last_rx.req.observe = {}
    /\ Len(last_rx.out) = 1

\* C16: registration is idempotent per (peer, token): there is never more
\* than one active subscriber with the same peer and the same token.
C16_OneSubscriberPerPeerToken ==
    \A i, j \in ActiveSubs(subscribers) :
        (subscribers[i].peer = subscribers[j].peer
            /\ subscribers[i].token = subscribers[j].token) => i = j

\* C17: never more than MAX_SUBSCRIBERS subscribers are active; a
\* registration that finds every slot active is answered 4.00 and leaves
\* every entry as it was.
C17_FullTableRejects ==
    /\ [](Cardinality(ActiveSubs(subscribers)) <= MAX_SUBSCRIBERS)
    /\ [][\A req \in RegRequests :
             (/\ last_rx'.req = req /\ RegRecv(req)
              /\ IsRegistration(req) /\ ActiveSubs(subscribers) = SubIdx)
                => /\ UNCHANGED subscribers
                   /\ Len(last_rx'.out) = 1
                   /\ last_rx'.out[1].type = "ACK"
                   /\ last_rx'.out[1].msg_id = req.msg_id
                   /\ last_rx'.out[1].code = "4.00"]_vars

\* A registration was refused with every slot active.
C17_Witness ==
    /\ ActiveSubs(subscribers) = SubIdx
    /\ IsRegistration(last_rx.req)
    /\ Len(last_rx.out) = 1
    /\ last_rx.out[1].code = "4.00"

(***************************************************************************)
(* Subscribers over hours: prune passes, ACKs and retransmit failures.     *)
(***************************************************************************)
\* Number of registrations of such a run.
MaxPruneRegs == 2
\* Number of SUBSCRIBER_TIMEOUT_MS windows such a run lasts, and number of
\* periods of the main loop it lasts beyond them.
MaxPruneWindows == 3
MaxPrunePeriods == 3
\* The main loop calls prune_dead_subscribers when more than PruneAfterMs
\* have passed since the last call: a pass every PrunePeriod ms.
PruneAfterMs == 5000
PrunePeriod == PruneAfterMs + 1000

PruneInit == RelIdle /\ DupIdle /\ SrvIdle /\ CliIdle

\* A registration arrives from peer with token.
PruneRegister(peer, token) ==
    /\ regs < MaxPruneRegs
    /\ ServerRecv([Request("CON", "GET", "buttons", Len(rec_log) + 1, peer,
                           {coap_set_option_uint(0)}, {}, "", NoPayload)
                      EXCEPT !.token = token], TRUE)

\* An ACK arrives from peer (for a message that is no longer pending).
PruneAck(peer) ==
    /\ \E st \in {AckHandler(SrvSt, peer, 0, {}, 0, TRUE, elapsed)} : Commit(st)
    /\ UNCHANGED <<PushRest, elapsed, send_image>>

\* The retransmissions of a message to peer are used up: the failure
\* callback runs.
PruneFailure(peer) ==
    /\ SubOf(subscribers, peer) >= 0
    /\ subscribers[SubOf(subscribers, peer)].timeout_sessions <= TIMEOUT_THRESHOLD
    /\ Commit(on_retransmit_failure(
                 SrvSt, [pending_messages EXCEPT ![0].dest = peer], {0}))
    /\ UNCHANGED <<PushRest, elapsed, send_image>>

\* dt ms pass and the main loop runs a prune pass; the passes of the periods
\* in between, if any, found nothing to do.
PrunePass(dt) ==
    /\ (elapsed + dt) \div SUBSCRIBER_TIMEOUT_MS <= MaxPruneWindows
    /\ (elapsed + dt) % SUBSCRIBER_TIMEOUT_MS <= MaxPrunePeriods * PrunePeriod
    /\ dt > PrunePeriod
          => prune_dead_subscribers(
                 subscribers,
                 (boot_offset + ToUnits(elapsed + dt - PrunePeriod)) % ClockWrap)
               = subscribers
    /\ elapsed' = elapsed + dt
    /\ subscribers' =
          prune_dead_subscribers(
              subscribers, (boot_offset + ToUnits(elapsed + dt)) % ClockWrap)
    /\ UNCHANGED <<pending_messages, boot_offset, pkt_hist, stalls, alloc_fails,
                   dupVars, file_state, send_image, sd_files, led_state,
                   buzzer_state, sent, regs, last_rx, cliVars>>

PruneSteps == {PrunePeriod, SUBSCRIBER_TIMEOUT_MS, SUBSCRIBER_TIMEOUT_MS + PrunePeriod}

PruneNext ==
    \/ \E peer \in Peers, token \in {<<7>>, <<8>>} : PruneRegister(peer, token)
    \/ \E peer \in Peers : PruneAck(peer)
    \/ \E peer \in Peers : PruneFailure(peer)
    \/ \E dt \in PruneSteps : PrunePass(dt)

SpecPrune == PruneInit /\ [][PruneNext]_vars

\* C18: a prune pass removes the subscribers with TIMEOUT_THRESHOLD strikes
\* and no others; a window of SUBSCRIBER_TIMEOUT_MS without an ACK costs one
\* strike and starts a new window; a retransmit failure is a strike; an ACK
\* from the peer of a subscriber sets the strikes of that subscriber to 0.
C18_PruneAndAckReset ==
    [][/\ \A dt \in PruneSteps :
             PrunePass(dt) =>
                \A i \in ActiveSubs(subscribers) :
                   /\ subscribers'[i].active
                         <=> subscribers[i].timeout_sessions < TIMEOUT_THRESHOLD
                   /\ subscribers'[i].timeout_sessions
                         \in {subscribers[i].timeout_sessions,
                              subscribers[i].timeout_sessions + 1}
                   /\ subscribers'[i].timeout_sessions # subscribers[i].timeout_sessions
                         => subscribers'[i].last_ack_time = NowMs'
       /\ \A peer \in Peers :
             PruneAck(peer) =>
                \A i \in ActiveSubs(subscribers) :
                   subscribers[i].peer = peer => subscribers'[i].timeout_sessions = 0]_vars

(***************************************************************************)
(* The pending-message table filling up: confirmable sends without ACKs.   *)
(***************************************************************************)
\* Number of confirmable sends, of ACKs and of main-loop periods of such a
\* run.
MaxFullSends == 11
MaxFullAcks == 1
MaxFullTicks == 1

\* What coap_send_con_notification, coap_send_con_request and
\* coap_send_fetch_request return once the packet is built: the result of
\* coap_store_for_retransmit is dropped, 0 is returned when pbuf_alloc fails
\* (sent_ok is false) and the message ID otherwise.
ConSendReturn(msg_id, sent_ok) == IF sent_ok THEN msg_id ELSE 0

\* A confirmable send with store_for_retransmit = true to peer d; the
\* messages of a run have the IDs 1, 2, ... and go to the two peers in
\* turn; ret is what the caller gets.
FullSend(m, d, sent_ok) ==
    /\ Len(pkt_hist) < MaxFullSends
    /\ m = Len(pkt_hist) + 1
    /\ ~sent_ok => alloc_fails < MaxDisturb
    /\ pending_messages' =
         coap_store_for_retransmit(pending_messages, m, d, Len(pkt_hist) + 1, NowMs)
    /\ pkt_hist' = Append(pkt_hist, NewHist(m, d, StoreSucceeds(pending_messages))
                                       @@ [ret |-> ConSendReturn(m, sent_ok)])
    /\ alloc_fails' = IF sent_ok THEN alloc_fails ELSE alloc_fails + 1
    /\ UNCHANGED <<boot_offset, elapsed, stalls>>
    /\ UNCHANGED <<dupVars, srvVars, cliVars>>

\* The ACK of a pending message arrives.
FullAck(m) ==
    /\ Cardinality({p \in 1 .. Len(pkt_hist) : pkt_hist[p].cleared}) < MaxFullAcks
    /\ ClearSlot(pending_messages, m) >= 0
    /\ AckMsg(m)

\* One period of the main loop.
FullLoop ==
    /\ elapsed < MaxFullTicks * TickMs
    /\ MainLoop({})

FullNext ==
    \/ \E m \in 1 .. MaxFullSends, sent_ok \in BOOLEAN :
          FullSend(m, IF m % 2 = 1 THEN "A" ELSE "B", sent_ok)
    \/ \E m \in 1 .. MaxFullSends : FullAck(m)
    \/ FullLoop

SpecFull == RelInit /\ [][FullNext]_vars

\* C19: a confirmable send that finds the pending-message table full
\* returns 0 to its caller.
C19_FullTableSendFails ==
    [][\A m \in 1 .. MaxFullSends, d \in Peers, sent_ok \in BOOLEAN :
          (FullSend(m, d, sent_ok) /\ \A i \in Slots : pending_messages[i].active)
             => pkt_hist'[Len(pkt_hist')].ret = 0]_vars

\* C20: at most MAX_PENDING_MESSAGES entries are active; a store that finds
\* them all active returns false and leaves every slot as it was; any other
\* store changes exactly one slot, inactive before, which then holds the
\* message with retransmit_count = 0 and next_retry = now + ACK_TIMEOUT_MS.
C20_StoreBounded ==
    /\ [](Cardinality({i \in Slots : pending_messages[i].active}) <= MAX_PENDING_MESSAGES)
    /\ [][\A m \in 1 .. MaxFullSends, d \in Peers, sent_ok \in BOOLEAN :
             FullSend(m, d, sent_ok) =>
                IF \A i \in Slots : pending_messages[i].active
                THEN /\ UNCHANGED pending_messages
                     /\ ~pkt_hist'[Len(pkt_hist')].stored
                ELSE /\ pkt_hist'[Len(pkt_hist')].stored
                     /\ \E i \in Slots :
                           /\ ~pending_messages[i].active
                           /\ \A j \in Slots \ {i} :
                                 pending_messages'[j] = pending_messages[j]
                           /\ pending_messages'[i] =
                                 [active |-> TRUE, msg_id |-> m, dest |-> d,
                                  retransmit_count |-> 0,
                                  next_retry_ms |->
                                     (NowMs + ToUnits(ACK_TIMEOUT_MS)) % ClockWrap,
                                  packet |-> Len(pkt_hist')]]_vars

\* A store was refused with all slots active, some of them waiting for
\* their second retransmission.
C20_Witness ==
    /\ \A i \in Slots : pending_messages[i].active
    /\ \E i \in Slots : pending_messages[i].retransmit_count = 1
    /\ Len(pkt_hist) > MAX_PENDING_MESSAGES
    /\ ~pkt_hist[Len(pkt_hist)].stored

(***************************************************************************)
(* FETCH /file: line ranges of server.txt.                                 *)
(***************************************************************************)
\* Number of FETCH requests of a run.
MaxFetches == 1

\* server.txt as the lengths of its lines and of what follows the last
\* newline: short lines, an unterminated last line, lines that fill the
\* fetch buffer exactly, lines that overflow it, a line longer than the
\* line buffer of f_gets, an empty file.
FetchFiles ==
    {[lines |-> <<10, 20, 30>>, tail |-> 0],
     [lines |-> <<10, 20>>, tail |-> 5],
     [lines |-> <<200, 200, 200, 200, 224, 50>>, tail |-> 0],
     [lines |-> <<250, 250, 250, 250, 250, 250>>, tail |-> 0],
     [lines |-> <<300, 10>>, tail |-> 0],
     [lines |-> <<>>, tail |-> 0]}

FetchInit ==
    /\ RelIdle /\ DupIdle /\ CliIdle
    /\ \E f \in FetchFiles :
          SrvStartWith([text |-> SumSeq(f.lines) + f.tail, image |-> ImageSize,
                        appended |-> <<>>, lines |-> f.lines, tail |-> f.tail])

\* The decimal digits of n (what the client's snprintf("%d") writes), for
\* -100 < n < 100.
Itoa(n) ==
    LET digit(d) == CHOOSE c \in {"0", "1", "2", "3", "4", "5", "6", "7", "8", "9"} :
                        DigitOf(c) = d
        abs == IF n < 0 THEN 0 - n ELSE n
    IN  (IF n < 0 THEN <<"-">> ELSE <<>>)
        \o (IF abs >= 10 THEN <<digit(abs \div 10)>> ELSE <<>>)
        \o <<digit(abs % 10)>>

\* The payload "start,end".
RangeText(a, b) == Itoa(a) \o <<",">> \o Itoa(b)

FetchStarts == {-1, 0, 1, 2, 6}
FetchEnds == {-3, -2, -1, 0, 1, 4, 8}
FetchCounts == {-2, -1, 0, 1, 2, 5, 9}

\* The payloads of the FETCH requests: ranges, counts, no payload, and
\* texts that are neither.
FetchTexts ==
    {RangeText(a, b) : a \in FetchStarts, b \in FetchEnds}
    \cup {Itoa(n) : n \in FetchCounts}
    \cup {<<>>, <<" ", "2">>, <<"2", ",">>, <<"x">>}

\* Content-Format: none, 0 (text/plain), 42 (application/octet-stream).
FetchFormats == {{}, {coap_set_option_uint(0)}, {coap_set_option_uint(42)}}

\* CON FETCH /file with this payload and this Content-Format option.
FetchRequest(chars, cf) ==
    [Request("CON", "FETCH", "file", Len(rec_log) + 1, "A", {}, {}, "",
             [len |-> Len(chars), data |-> chars])
        EXCEPT !.content_format = cf]

FetchRecv(req, io) ==
    /\ Len(rec_log) < MaxFetches
    /\ ServerRecvIO(req, TRUE, io)

FetchNext ==
    \E chars \in FetchTexts, cf \in FetchFormats, io \in {"ok", "open_fail"} :
        FetchRecv(FetchRequest(chars, cf), io)

SpecFetch == FetchInit /\ [][FetchNext]_vars

LinesOf(files) ==
    files.lines \o (IF files.tail > 0 THEN <<files.tail>> ELSE <<>>)

\* The payload of lines a..b of the file, cut at a whole line where the next
\* line would no longer fit in FETCH_BUFFER_SIZE bytes.
LinesPayload(files, a, b) ==
    LET ll == LinesOf(files)
        last == Min(b, Len(ll) - 1)
        size(k) == SumSeq(SubSeq(ll, a + 1, a + k))
        n == CHOOSE k \in 0 .. (last - a + 1) :
                /\ size(k) <= FETCH_BUFFER_SIZE
                /\ k < last - a + 1 => size(k + 1) > FETCH_BUFFER_SIZE
    IN  IF a >= Len(ll) \/ size(n) = 0 THEN NoPayload
        ELSE [len |-> size(n), data |-> <<"text", SumSeq(SubSeq(ll, 1, a))>>]

\* C22: a FETCH /file for the valid range start..end, on a file of L lines
\* that can be opened, is answered 2.05 with lines start..min(end, L-1), cut
\* at a whole line where the next one would not fit in the 1024-byte buffer,
\* with no payload when start >= L; the file is not modified.
C22_FetchLines ==
    [][\A a \in FetchStarts, b \in FetchEnds :
          (/\ 0 <= a /\ a <= b
           /\ FetchRecv(FetchRequest(RangeText(a, b), {coap_set_option_uint(0)}), "ok"))
             => /\ last_rx'.out[1].code = "2.05"
                /\ last_rx'.out[1].payload = LinesPayload(sd_files, a, b)
                /\ UNCHANGED sd_files]_vars

\* C23: for every integer N, a FETCH /file with payload "N" gets the
\* response (code and payload) of the same request with payload "0,N-1".
C23_CountIsRange ==
    [][\A n \in FetchCounts, cf \in FetchFormats, io \in {"ok", "open_fail"} :
          FetchRecv(FetchRequest(Itoa(n), cf), io)
             => LET other == handle_fetch_file(FetchRequest(RangeText(0, n - 1), cf),
                                               sd_files, io)
                IN  /\ last_rx'.out[1].code = other.code
                    /\ last_rx'.out[1].payload = other.payload]_vars

(***************************************************************************)
(* iPATCH /file with an SD card that may fail.                             *)
(***************************************************************************)
\* Number of iPATCH requests of a run.
MaxPatches == 3

PatchPayloads ==
    {NoPayload, [len |-> 4, data |-> <<"line">>], [len |-> 3, data |-> <<"two">>]}

\* CON iPATCH /file with this payload.
PatchRequest(payload) ==
    Request("CON", "iPATCH", "file", Len(rec_log) + 1, "A", {}, {}, "", payload)

PatchRecv(req, io) ==
    /\ Len(rec_log) < MaxPatches
    /\ ServerRecvIO(req, TRUE, io)

PatchNext ==
    \E payload \in PatchPayloads,
       io \in {"ok", "open_fail", "write_fail", "newline_fail"} :
        PatchRecv(PatchRequest(payload), io)

SpecPatch == FetchInit /\ [][PatchNext]_vars

\* C24: iPATCH /file with no payload is answered 4.00 and leaves the file
\* alone; when the file cannot be opened for append the answer is 5.03 and
\* the file is left alone; otherwise the payload and one newline are
\* appended to the text file and the answer is 2.04 "Appended".
C24_PatchAppends ==
    [][\A payload \in PatchPayloads,
          io \in {"ok", "open_fail", "write_fail", "newline_fail"} :
          PatchRecv(PatchRequest(payload), io) =>
             IF payload.len = 0
             THEN last_rx'.out[1].code = "4.00" /\ UNCHANGED sd_files
             ELSE IF io = "open_fail"
             THEN last_rx'.out[1].code = "5.03" /\ UNCHANGED sd_files
             ELSE /\ last_rx'.out[1].code = "2.04"
                  /\ last_rx'.out[1].payload = [len |-> 8, data |-> <<"Appended">>]
                  /\ sd_files'.appended = Append(sd_files.appended, payload)
                  /\ sd_files'.text = sd_files.text + payload.len + 1
                  /\ LinesOf(sd_files') =
                        Append(sd_files.lines, sd_files.tail + payload.len + 1)]_vars

\* C25: a PUT /actuators with a directive (LED=ON, LED=OFF, BUZZER=ON,
\* BUZZER=OFF) sets the state of that actuator, which GET /actuators
\* reports and which stays until a later PUT has a directive for the same
\* actuator; a PUT without payload is answered 4.00 and changes no state.
C25_ActuatorsFollowPut ==
    [][\A req \in Requests :
          (last_rx'.req = req /\ SrvRecv(req)) =>
             LET p == req.payload
                 put == last_rx'.handler = "handle_put_actuators"
             IN  /\ (put /\ p.len = 0 /\ req.type = "CON")
                       => last_rx'.out[1].code = "4.00"
                 /\ led_state' =
                       IF put /\ Contains(p, "LED=ON") THEN TRUE
                       ELSE IF put /\ Contains(p, "LED=OFF") THEN FALSE
                       ELSE led_state
                 /\ buzzer_state' =
                       IF put /\ Contains(p, "BUZZER=ON") THEN TRUE
                       ELSE IF put /\ Contains(p, "BUZZER=OFF") THEN FALSE
                       ELSE buzzer_state
                 /\ last_rx'.handler = "handle_get_actuators"
                       => last_rx'.out[1].payload.data =
                             <<"LED", led_state, "BUZZER", buzzer_state>>]_vars

\* C26: SZX is clamped to 6: coap_block_size_from_szx(SZX) is
\* 2^(min(SZX, 6) + 4) for SZX in 0..7, and for every requested SZX the
\* response of GET /file holds at most 1024 bytes and carries in its Block2
\* option an SZX of at most 6, that of the block size used.
C26_SzxClamped ==
    /\ \A szx \in 0 .. 7 : coap_block_size_from_szx(szx) = 2 ^ (Min(szx, 6) + 4)
    /\ last_rx.handler = "handle_get_file" =>
          LET asked == IF last_rx.req.block2 = {} THEN 6
                       ELSE OptUint(last_rx.req.block2) % 8
              szx == OptUint(LastReply.block2) % 8
          IN  /\ LastReply.payload.len <= 1024
              /\ szx <= 6
              /\ 2 ^ (szx + 4) = coap_block_size_from_szx(asked)

(***************************************************************************)
(* The Block2 option codec, exercised as unit_test_block2_encoding does:   *)
(* a value is encoded into buf and the bytes are parsed back.              *)
(***************************************************************************)

\* coap_parse_block2_option on the bytes of the option; block_val is a
\* uint32_t, the shift drops its top byte.
coap_parse_block2_option(buf) ==
    LET RECURSIVE Val(_, _)
        Val(b, acc) == IF b = <<>> THEN acc
                       ELSE Val(Tail(b), (acc % (2 ^ 24)) * (2 ^ 8) + Head(b))
        block_val == Val(buf, 0)
    IN  [block_num |-> block_val \div (2 ^ 4),
         more |-> (block_val \div (2 ^ 3)) % 2 # 0,
         szx |-> block_val % (2 ^ 3)]

\* Block numbers around the length limits of the encoding.
CodecNums == {0, 1, 15, 16, 100, 4095, 4096, 65535, 2 ^ 20 - 1}

CodecInit == RelIdle /\ DupIdle /\ SrvIdle /\ CliIdle

\* One case of the test: encode (block_num, more, szx), parse the bytes.
CodecCase(block_num, more, szx) ==
    /\ \E buf \in {coap_encode_block2_option(block_num, more, szx)} :
          last_rx' = [req |-> [block_num |-> block_num, more |-> more, szx |-> szx],
                      handler |-> "unit_test_block2_encoding",
                      out |-> <<[buf |-> buf, parsed |-> coap_parse_block2_option(buf)]>>]
    /\ UNCHANGED <<relVars, dupVars, cliVars, subscribers, file_state,
                   send_image, sd_files, led_state, buzzer_state, sent, regs>>

CodecNext ==
    \E block_num \in CodecNums, more \in BOOLEAN, szx \in 0 .. 7 :
        CodecCase(block_num, more, szx)

SpecCodec == CodecInit /\ [][CodecNext]_vars

\* C27: for NUM < 2^20, M and SZX in 0..7 the encoder writes
\* (NUM << 4) | (M << 3) | SZX big-endian in 1 byte when the value is below
\* 256, 2 bytes below 65536, else 3 bytes ((0,true,6) -> 0x0E;
\* (100,false,6) -> 0x06 0x46), and parsing those bytes gives (NUM, M, SZX).
C27_Block2Codec ==
    /\ coap_encode_block2_option(0, TRUE, 6) = <<14>>
    /\ coap_encode_block2_option(100, FALSE, 6) = <<6, 70>>
    /\ last_rx.handler = "unit_test_block2_encoding" =>
          LET in == last_rx.req
              buf == last_rx.out[1].buf
              v == in.block_num * 16 + (IF in.more THEN 8 ELSE 0) + in.szx
              n == IF v < 256 THEN 1 ELSE IF v < 65536 THEN 2 ELSE 3
              RECURSIVE BigEndian(_)
              BigEndian(k) == IF k = 0 THEN 0 ELSE BigEndian(k - 1) * 256 + buf[k]
          IN  /\ Len(buf) = n
              /\ \A k \in 1 .. n : buf[k] \in 0 .. 255
              /\ BigEndian(n) = v
              /\ last_rx.out[1].parsed = in

\* A three-byte Block2 value was encoded and parsed.
C27_Witness ==
    /\ last_rx.handler = "unit_test_block2_encoding"
    /\ last_rx.req = [block_num |-> 2 ^ 20 - 1, more |-> TRUE, szx |-> 7]
    /\ Len(last_rx.out[1].buf) = 3

(***************************************************************************)
(* The push transfer of files of several sizes to one subscriber.          *)
(***************************************************************************)
SizedInit ==
    /\ RelIdle /\ DupIdle /\ CliIdle
    /\ \E text \in FileSizes, image \in FileSizes : SrvStart(text, image)

SizedNext ==
    \/ PushRegister("A", regs + 1)
    \/ PushButton3(Len(sent))
    \/ \E n \in DOMAIN sent : PushAck(n, Len(sent))

SpecSized == SizedInit /\ [][SizedNext]_vars

\* The M bit of the Block2 option of notification n.
MoreOf(n) == (OptUint(sent[n].pkt.block2) \div (2 ^ 3)) % 2 = 1

\* The size of the file notification n carries a block of.
FileSizeOf(n) ==
    IF sent[n].pkt.content_format # {} THEN sd_files.image ELSE sd_files.text

\* C29: for every file size, exact multiples of 1024 included, a block
\* notification of the push sender carries M=1 if and only if file bytes
\* remain beyond its block: block 0 carries M=1 iff the file is larger than
\* 1024 bytes, and the last block of the file carries M=0.
C29_MoreIffBytesRemain ==
    \A n \in BlockNotifs :
        MoreOf(n) <=> FileSizeOf(n) > (BlockNumOf(n) + 1) * BLOCK_SIZE

\* C28: in every state of the push transfer waiting_for_ack is true if and
\* only if a block notification was emitted for the current block_num and
\* is neither ACKed nor given up: that block is still active in the
\* pending-message table.
C28_WaitingIffBlockPending ==
    file_state.waiting_for_ack <=>
        \E n \in BlockNotifs : BlockNumOf(n) = file_state.block_num /\ Pending(n)

(***************************************************************************)
(* The push transfer to one subscriber that never answers: buttons 1 and 3 *)
(* and the main loop.                                                      *)
(***************************************************************************)
\* Number of notifications the server builds in such a run.
MaxSilentNotifs == 4

\* Button 1 is pressed; the notifications draw message IDs in sequence.
SilentButton ==
    /\ InWindow
    /\ ActiveSubs(subscribers) # {}
    /\ \E st \in {ButtonBroadcast(SrvSt, 0, [j \in SubIdx |-> Len(sent)], {},
                                  ButtonPayload(1), elapsed)} :
          /\ Len(st.log) <= MaxSilentNotifs
          /\ Commit(st)
    /\ UNCHANGED <<PushRest, elapsed, send_image>>

\* Button 3 is pressed.
SilentButton3 ==
    LET image == ~send_image IN
    /\ InWindow
    /\ \E st \in {start_file_transfer(SrvSt, image,
                                      IF image THEN sd_files.image ELSE sd_files.text,
                                      Len(sent), TRUE, elapsed)} :
          /\ Len(st.log) <= MaxSilentNotifs
          /\ Commit(st)
    /\ send_image' = image
    /\ UNCHANGED <<PushRest, elapsed>>

SilentNext ==
    \/ regs = 0 /\ PushRegister("A", 1)
    \/ SilentButton
    \/ SilentButton3
    \/ PushLoop

SpecSilent == PushInit /\ [][SilentNext]_vars

\* Block notification n is given up in this step: its retransmission is
\* exhausted and the failure callback runs for it.
GivenUp(n) == Len(pkt_hist'[n].fails) > Len(pkt_hist[n].fails)

TransferPeer ==
    IF BlockNotifs = {} THEN NoPeer
    ELSE sent[CHOOSE n \in BlockNotifs : \A m \in BlockNotifs : m <= n].dest

\* C31: the exhaustion of a message addressed to peer P affects only P: it
\* aborts a file transfer only if the transfer is routed to P and charges a
\* strike only to the subscriber entry of P; a transfer whose blocks go to
\* another subscriber Q, and the entry of Q, are left as they were.
C31_FailureAffectsOnlyItsPeer ==
    [][LET failed == FailedSlots(pending_messages, NextCheck)
           peers == {pending_messages[i].dest : i \in failed}
           after == on_retransmit_failure(SrvSt, pending_messages, failed)
       IN  (elapsed' # elapsed /\ failed # {}) =>
              /\ TransferPeer \notin peers => file_state' = file_state
              /\ \A j \in SubIdx :
                    subscribers[j].peer \notin peers => after.subs[j] = subscribers[j]]_vars

(***************************************************************************)
(* The client with a server that never answers: GET /file, FETCH and       *)
(* iPATCH are sent, retransmitted and given up.                            *)
(***************************************************************************)
\* Number of requests the client sends in such a run.
MaxCliRequests == 2

\* coap_send_con_request and coap_send_fetch_request on the client state st:
\* the request is stored for retransmission and sent.
SendRequest(st, req) ==
    [st EXCEPT
        !.pm = coap_store_for_retransmit(@, req.msg_id, "S", Len(st.hist) + 1, NowMs),
        !.hist = Append(@, NewHist(req.msg_id, "S", StoreSucceeds(st.pm))),
        !.out = Append(@, req)]

\* on_client_retransmit_failure: the LED and the buzzer signal the failure;
\* block_state and the two flags are not touched.
on_client_retransmit_failure(bs, wait) == [bs |-> bs, wait |-> wait]

\* The GET /file button: request_get_file.
SilentGet(request_image) ==
    /\ InWindow
    /\ Len(pkt_hist) < MaxCliRequests
    /\ CliCommit(request_get_file(CliSt, request_image, Len(pkt_hist)))
    /\ UNCHANGED <<CliRest, client_dup_detector, file_handle, cli_rxn, cli_wait>>

\* The FETCH button: request_fetch_file(start_line, end_line).
SilentFetch(start_line, end_line) ==
    /\ InWindow
    /\ Len(pkt_hist) < MaxCliRequests
    /\ cli_wait' = [cli_wait EXCEPT !.fetch = TRUE]
    /\ CliCommit(SendRequest(CliSt,
          [FetchRequest(RangeText(start_line, end_line),
                        {coap_set_option_uint(0)})
              EXCEPT !.msg_id = Len(pkt_hist)]))
    /\ UNCHANGED <<CliRest, client_dup_detector, file_handle, cli_rxn>>

\* The APPEND button: request_ipatch_file(line).
SilentPatch(line) ==
    /\ InWindow
    /\ Len(pkt_hist) < MaxCliRequests
    /\ cli_wait' = [cli_wait EXCEPT !.append = TRUE]
    /\ CliCommit(SendRequest(CliSt, [PatchRequest(line) EXCEPT !.msg_id = Len(pkt_hist)]))
    /\ UNCHANGED <<CliRest, client_dup_detector, file_handle, cli_rxn>>

\* The client's main loop up to the next moment a slot is due:
\* coap_check_retransmissions with the failure callback.
SilentLoop ==
    \E t \in {NextCheck} :
       /\ \E i \in Slots : pending_messages[i].active
       /\ t * ClockUnit <= MaxTicks * TickMs
       /\ pending_messages' = coap_check_retransmissions(pending_messages, t, {})
       /\ pkt_hist' = HistAfterCheckAt(pkt_hist, pending_messages, t, {}, t * ClockUnit)
       /\ \E r \in {IF FailedSlots(pending_messages, t) = {}
                    THEN [bs |-> block_state, wait |-> cli_wait]
                    ELSE on_client_retransmit_failure(block_state, cli_wait)} :
             /\ block_state' = r.bs
             /\ cli_wait' = r.wait
       /\ elapsed' = t * ClockUnit
       /\ UNCHANGED <<boot_offset, stalls, alloc_fails, dupVars, srvVars,
                      client_dup_detector, file_handle, cli_gets, cli_out, cli_rxn>>

CliSilentNext ==
    \/ \E request_image \in BOOLEAN : SilentGet(request_image)
    \/ SilentFetch(0, 4)
    \/ \E line \in PatchPayloads \ {NoPayload} : SilentPatch(line)
    \/ SilentLoop

SpecCliSilent == CliInit /\ [][CliSilentNext]_vars

\* C32: on the client, when the retransmission of a request (GET /file,
\* FETCH, iPATCH) is exhausted the failure callback cleans up: an active
\* pull transfer is ended and waiting_for_fetch_response and
\* waiting_for_append_response are cleared, so no transfer or wait flag
\* stays set while nothing is pending.
C32_ClientFailureCleansUp ==
    [][(/\ FailedSlots(pending_messages, NextCheck) # {}
        /\ elapsed' # elapsed
        /\ \A i \in Slots : ~pending_messages'[i].active)
          => /\ ~block_state'.transfer_active
             /\ ~cli_wait'.fetch
             /\ ~cli_wait'.append]_vars

\* The number of the last block of a file of `size` bytes:
\* max(ceil(size / 1024), 1) - 1.
LastBlockOf(size) ==
    LET blocks == (size + BLOCK_SIZE - 1) \div BLOCK_SIZE
    IN  (IF blocks > 1 THEN blocks ELSE 1) - 1

\* C33: for every file size, 0 and the multiples of 1024 included, when every
\* block is ACKed with its Block2 number the push transfer ends
\* (transfer_active = false) on the ACK of block max(ceil(S/1024), 1) - 1,
\* and no block with a number beyond the last block of the file is emitted.
C33_PushTransferTerminates ==
    /\ [][\A n \in BlockNotifs :
             (/\ file_state.transfer_active
              /\ BlockNumOf(n) = file_state.block_num
              /\ ~pkt_hist[n].cleared /\ pkt_hist'[n].cleared)
                => (~file_state'.transfer_active
                       <=> BlockNumOf(n) = LastBlockOf(FileSizeOf(n)))]_vars
    /\ [](\A n \in BlockNotifs : BlockNumOf(n) <= LastBlockOf(FileSizeOf(n)))

\* C34: a duplicate NON request (its message ID is in the duplicate window
\* of the server) is dropped: no handler runs and no datagram is emitted;
\* the empty ACK of a duplicate is emitted only for a CON.
C34_DuplicateNonDropped ==
    [][\A req \in Requests :
          (/\ last_rx'.req = req
           /\ SrvRecv(req)
           /\ req.type = "NON" /\ ~IsGetFile(req)
           /\ req.msg_id \in LastRecorded
           /\ coap_is_duplicate_message(server_dup_detector, req.msg_id))
             => /\ last_rx'.out = <<>>
                /\ last_rx'.handler = "none"
                /\ UNCHANGED <<subscribers, led_state, buzzer_state, sd_files>>]_vars

\* The bytes of the payload of block notification pkt are in file f at the
\* offset of its block.
Persisted(f, pkt) ==
    LET block_val == OptUint(pkt.block2)
        at == (block_val \div (2 ^ 4)) * (2 ^ ((block_val % (2 ^ 3)) + 4))
    IN  \A i \in 0 .. (pkt.payload.len - 1) :
           ByteAt(f.extents, at + i) = PayloadByte(pkt.payload, i)

\* C35: the client ACKs a Block2 notification with NUM = N (a first copy or
\* a retransmitted copy with the same message ID) only if the payload of
\* block N has been written to the receive file at offset N * block_size:
\* every block the server counts as ACKed is persisted at the client, also
\* after blocks that were dropped (gap, file not open) and sent again.
C35_AckOnlyIfPersisted ==
    [][\A pkt \in Notifications :
          (/\ pkt.block2 # {}
           /\ cli_out' = <<coap_send_block_ack(pkt)>>
           /\ CliRecvNotification(pkt))
             => Persisted(file_handle', pkt)]_vars

(***************************************************************************)
(* The push transfer end to end: the server, one client that subscribes,   *)
(* and a network that delivers every datagram once and in order.           *)
(***************************************************************************)
\* The notification n reaches the client (its first and only copy).
E2EDeliver(n) ==
    /\ Pending(n)
    /\ ~coap_is_duplicate_message(client_dup_detector, sent[n].pkt.msg_id)
    /\ CliRecvNotification(sent[n].pkt)

\* The ACK the client emitted for notification n reaches the server.
E2EAck(n) ==
    /\ Pending(n)
    /\ cli_out = <<coap_send_block_ack(sent[n].pkt)>>
    /\ PushAck(n, Len(sent) + 1)

E2ENext ==
    \/ regs = 0 /\ PushRegister("A", 1)
    \/ PushButton3(Len(sent) + 1)
    \/ \E n \in DOMAIN sent : E2EDeliver(n)
    \/ \E n \in DOMAIN sent : E2EAck(n)

SpecE2E == SizedInit /\ [][E2ENext]_vars

\* File f of the client holds the `size` bytes of the server's file `name`
\* and nothing more.
SameContent(f, name, size) ==
    /\ \A x \in 0 .. (size - 1) : ByteAt(f.extents, x) = <<name, x>>
    /\ \A e \in 1 .. Len(f.extents) : f.extents[e].at + f.extents[e].len <= size

\* C36: whenever the server completes a push transfer (the last block is
\* ACKed and transfer_active becomes false) the client has received a block
\* with M=0 and closed its receive file (file_open = false, expected block
\* 0), and the file received equals the server's file, for every file size.
C36_EndToEndAgreement ==
    [][(file_state.transfer_active /\ ~file_state'.transfer_active)
          => /\ file_handle.filename # ""
             /\ ~file_handle.file_open
             /\ file_handle.last_block_num = 0
             /\ SameContent(file_handle,
                            IF file_state.is_image THEN "image" ELSE "text",
                            file_state.size)]_vars

\* The block number of the server's response to the client's g-th GET.
ResponseNum(g) == Block2Num(OptUint(handle_get_file(cli_gets[g], sd_files).block2))

\* C37: in the pull transfer (GET /file) each block number is written to the
\* destination file at most once and in increasing order: a Block2 response
\* that arrives a second time or late does not change the file and draws no
\* second request for the next block, so on completion the file equals the
\* server's file.
C37_PullBlocksWrittenOnce ==
    /\ [](\A a, b \in 1 .. Len(block_state.accepted) :
             a < b => block_state.accepted[a].num < block_state.accepted[b].num)
    /\ [][\A g \in DOMAIN cli_gets, next_id \in MsgIds :
             (/\ cli_rxn' = cli_rxn + 1
              /\ CliRecvResponse(g, next_id)
              /\ \E a \in 1 .. Len(block_state.accepted) :
                    block_state.accepted[a].num = ResponseNum(g))
                => /\ block_state'.extents = block_state.extents
                   /\ cli_gets' = cli_gets]_vars
    /\ []((~block_state.transfer_active /\ block_state.accepted # <<>>)
             => SameContent(block_state,
                            IF block_state.is_image THEN "image" ELSE "text",
                            IF block_state.is_image THEN sd_files.image
                            ELSE sd_files.text))

\* The runs of SpecSilent in which the main loop keeps running.
SpecSilentFair == SpecSilent /\ WF_vars(PushLoop)

\* C38: no push transfer is stuck: every transfer started by
\* start_file_transfer eventually reaches transfer_active = false, with the
\* main loop running and for any number of active subscribers, zero
\* included; whenever transfer_active is true a block notification for the
\* current block is active in the pending-message table.
C38_NoStuckTransfer ==
    /\ file_state.transfer_active ~> ~file_state.transfer_active
    /\ [](file_state.transfer_active =>
             \E n \in BlockNotifs :
                BlockNumOf(n) = file_state.block_num /\ Pending(n))

(***************************************************************************)
(* The push transfer with ACKs that come from another address than the     *)
(* notification went to.                                                   *)
(***************************************************************************)
\* An ACK that carries the message ID and the Block2 option of notification
\* n arrives from `peer`, which is not the destination of n.
ForeignAck(n, peer) ==
    /\ peer # sent[n].dest
    /\ \E st \in {AckHandler(SrvSt, peer, sent[n].pkt.msg_id,
                             sent[n].pkt.block2, Len(sent) + 1, TRUE, elapsed)} :
          /\ Len(st.log) <= MaxNotifs
          /\ Commit(st)
    /\ last_rx' = [req |-> [type |-> "ACK", msg_id |-> sent[n].pkt.msg_id,
                            block2 |-> sent[n].pkt.block2, peer |-> peer],
                   handler |-> "none", out |-> <<>>]
    /\ UNCHANGED <<boot_offset, stalls, alloc_fails, dupVars, sd_files, led_state,
                   buzzer_state, regs, cliVars, elapsed, send_image>>

ForeignNext ==
    \/ \E peer \in Peers : PushRegister(peer, regs + 1)
    \/ PushButton3(Len(sent) + 1)
    \/ \E n \in DOMAIN sent : PushAck(n, Len(sent) + 1)
    \/ \E n \in DOMAIN sent, peer \in Peers : ForeignAck(n, peer)

SpecForeign == PushInit /\ [][ForeignNext]_vars

\* C39: a pending confirmable message is cleared, and a push transfer is
\* advanced, only by an ACK from the peer the message was sent to: an ACK
\* with the same message ID or the same Block2 number from another peer
\* leaves the pending slot active and file_state unchanged.
C39_OnlyThePeerAcks ==
    [][\A n \in DOMAIN sent, peer \in Peers :
          (/\ last_rx'.req.type = "ACK"
           /\ last_rx'.req.peer = peer
           /\ ForeignAck(n, peer))
             => /\ pending_messages' = pending_messages
                /\ file_state' = file_state]_vars

\* The first notification sent to the subscriber of notification n: no
\* earlier notification went to the same registration.
FirstNotification(n) == \A p \in DOMAIN sent : sent[p].sid = sent[n].sid => n <= p

\* C40: for every subscriber, the first notification sent after the
\* registration carries an Observe value strictly greater than the Observe
\* value (0) of the registration response.
C40_FirstNotificationAfterResponse ==
    \A n \in DOMAIN sent :
        FirstNotification(n) => ObserveOf(n) > OptUint({coap_set_option_uint(0)})

====
